---- MODULE Spec2Model ----
(***************************************************************************)
(* UHF-CASSCF two-electron integral transformation (mcscf/mc_ao2mo_uhf.py) *)
(* as a state machine: one call of _ERIS.__init__, stepping through the    *)
(* strategy selection, the in-core / out-of-core engines and the two       *)
(* partial-transform drivers.  Tensors are integer valued so that every    *)
(* equality is exact.  Orbital and array indices are 0-based as in the     *)
(* source; the two spin channels are the components 1 (alpha, source       *)
(* index 0) and 2 (beta, source index 1) of the pairs mo and ncore.        *)
(***************************************************************************)
EXTENDS Integers, Sequences, FiniteSets, TLC

\* ---------------------------------------------------------------- bounds
\* Largest number of orbitals (nao = nmo) of an enumerated input.
MaxNmo == 3

\* ---------------------------------------------------------------- arrays
\* A numpy array is [shape, dat]: dat is defined on the index tuples that
\* have been written (numpy.empty leaves every element unwritten).
Rng(n) == 0 .. (n - 1)

Idx2(s) == Rng(s[1]) \X Rng(s[2])

Idx3(s) == Rng(s[1]) \X Rng(s[2]) \X Rng(s[3])

Idx4(s) == Rng(s[1]) \X Rng(s[2]) \X Rng(s[3]) \X Rng(s[4])

IdxOf(s) ==
    CASE Len(s) = 2 -> Idx2(s)
      [] Len(s) = 3 -> Idx3(s)
      [] Len(s) = 4 -> Idx4(s)

np_empty(s) == [shape |-> s, dat |-> <<>>]

np_zeros(s) == [shape |-> s, dat |-> [x \in IdxOf(s) |-> 0]]

\* arr[...] = part: the written elements replace, the others are kept.
Assign(arr, part) == [shape |-> arr.shape, dat |-> part @@ arr.dat]

\* The same function with every element evaluated once.
Evaluated(f) == f @@ <<>>

\* Every element of the array has been written.
Filled(arr) == DOMAIN arr.dat = IdxOf(arr.shape)

\* Number of elements of an array of this shape.
RECURSIVE SizeOf(_)
SizeOf(s) == IF s = <<>> THEN 1 ELSE Head(s) * SizeOf(Tail(s))

\* Sum of f[1] .. f[n].
RECURSIVE SumF(_, _)
SumF(f, n) == IF n = 0 THEN 0 ELSE f[n] + SumF(f, n - 1)

\* ---------------------------------------------------------------- inputs
\* Packed lower-triangular index of the pair (a, b).
Pair(a, b) == IF a >= b THEN (a * (a + 1)) \div 2 + b ELSE (b * (b + 1)) \div 2 + a

NPair(n) == (n * (n + 1)) \div 2

\* The AO two-electron integrals (pq|rs) = G[Pair(p,q), Pair(r,s)] of the
\* enumerated molecule with n basis functions: symmetric in the two pairs,
\* with no further symmetry.
AoInts(n) ==
    [x \in Rng(NPair(n)) \X Rng(NPair(n)) |->
        LET P == IF x[1] >= x[2] THEN x[1] ELSE x[2]
            Q == IF x[1] >= x[2] THEN x[2] ELSE x[1]
        IN  ((2 * (P + 2) * (Q + 1) + P * P + 3 * Q + P * Q * (P + Q + 2)) % 7) - 3]

\* Its MO coefficient matrices (nao x nmo); the beta matrix is neither the
\* alpha matrix nor its negative, so that the two spins have different
\* half-transformed integrals.
MoMat(spin, n) ==
    [x \in Rng(n) \X Rng(n) |->
        IF spin = 1
        THEN ((x[1] + 2 * x[2]) % 3) - 1
        ELSE 2 - ((x[1] + 3 * x[2] + x[1] * x[2]) % 4)]

Methods == {"incore", "outcore", "other"}

\* max_memory budgets, in bytes (the source's MB times 1e6).
MemChoices == {60, 500, 1000000}

\* ------------------------------------------------- external numeric kernels
\* Row and column of a packed lower-triangular index.
PairRow(c) == CHOOSE k \in 0 .. c : NPair(k) <= c /\ c < NPair(k + 1)

PairCol(c) == c - NPair(PairRow(c))

\* numpy.hstack((mo, mo[:, :nocc])): the nmo orbitals followed by the occupied ones.
hstack(m, nmo, nocc) ==
    [x \in Rng(nmo) \X Rng(nmo + nocc) |->
        IF x[2] < nmo THEN m[<<x[1], x[2]>>] ELSE m[<<x[1], x[2] - nmo>>]]

\* First half transformation of one AO pair column c (packed):
\* sum over mu, nu of moji[mu, i] moji[nu, j] (mu nu|c).
E1Elem(ints, moji, nao, i, j, c) ==
    SumF([t \in 1 .. nao * nao |->
            moji[<<(t - 1) \div nao, i>>] * moji[<<(t - 1) % nao, j>>]
            * ints[<<Pair((t - 1) \div nao, (t - 1) % nao), c>>]], nao * nao)

\* _ao2mo.nr_e1_incore_(eri_ao, moji, ijshape): rows (i, j) with i in the
\* i-window and j in the j-window of moji, columns the packed AO pairs.
nr_e1_incore_(eri_ao, moji, ijshape, nao) ==
    LET s == <<ijshape[2] * ijshape[4], NPair(nao)>>
    IN  [shape |-> s,
         dat |-> [x \in Idx2(s) |->
                    E1Elem(eri_ao, moji, nao,
                           ijshape[1] + (x[1] \div ijshape[4]),
                           ijshape[3] + (x[1] % ijshape[4]), x[2])]]

\* _ao2mo.nr_e1range_(moji, sh_range, ijshape, ...): the same transformation
\* for the AO pairs of the shells sh_range[1] .. sh_range[2]-1 only, laid out
\* (AO pair of the range, (i, j)).  Every shell holds one basis function.
nr_e1range_(ints, moji, sh_range, ijshape, nao) ==
    LET off == NPair(sh_range[1])
        s == <<NPair(sh_range[2]) - off, ijshape[2] * ijshape[4]>>
    IN  [shape |-> s,
         dat |-> [x \in Idx2(s) |->
                    E1Elem(ints, moji, nao,
                           ijshape[1] + (x[2] \div ijshape[4]),
                           ijshape[3] + (x[2] % ijshape[4]), off + x[1])]]

\* Whether nr_e2_ packs its output (identical k and l windows).
E2Packed(klshape) == klshape[1] = klshape[3] /\ klshape[2] = klshape[4]

E2Cols(klshape) ==
    IF E2Packed(klshape) THEN NPair(klshape[2]) ELSE klshape[2] * klshape[4]

\* One element of the second half transformation of the packed AO row r of vin.
E2Elem(vin, r, mokl, nao, k, l) ==
    SumF([t \in 1 .. nao * nao |->
            mokl[<<(t - 1) \div nao, k>>] * mokl[<<(t - 1) % nao, l>>]
            * vin.dat[<<r, Pair((t - 1) \div nao, (t - 1) % nao)>>]], nao * nao)

\* _ao2mo.nr_e2_(vin, mokl, klshape): transforms the AO pair of every row of
\* vin to the MO pair (k, l); packed lower-triangular when the windows agree.
nr_e2_(vin, mokl, klshape, nao) ==
    LET s == <<vin.shape[1], E2Cols(klshape)>>
    IN  [shape |-> s,
         dat |-> Evaluated([x \in Idx2(s) |->
                    IF E2Packed(klshape)
                    THEN E2Elem(vin, x[1], mokl, nao,
                                klshape[1] + PairRow(x[2]), klshape[3] + PairCol(x[2]))
                    ELSE E2Elem(vin, x[1], mokl, nao,
                                klshape[1] + (x[2] \div klshape[4]),
                                klshape[3] + (x[2] % klshape[4]))])]

\* Rows r0 .. r1-1 of a two-dimensional array (a numpy slice buf[r0:r1]).
Rows(arr, r0, r1) ==
    LET s == <<r1 - r0, arr.shape[2]>>
    IN  [shape |-> s, dat |-> [x \in Idx2(s) |-> arr.dat[<<x[1] + r0, x[2]>>]]]

\* NPdunpack_tril(n, tril, mat, 1): element (k, l) of the symmetric matrix
\* unpacked from row r of the packed array.
NPdunpack_tril(tril, r, k, l) == tril.dat[<<r, Pair(k, l)>>]

\* MCSCFinplace_apcv_uhf: japcv = apcv*2 - acpv.transpose(0,2,1,3)
\*                                        - avcp.transpose(0,3,2,1)
\* for one active orbital; ppp[j, k, l] is its unpacked cube.
MCSCFinplace_apcv_uhf(ppp, ncore, ncas, nmo) ==
    [x \in Idx3(<<nmo, ncore, nmo - ncore>>) |->
        2 * ppp[<<x[1], x[2], ncore + x[3]>>]
        - ppp[<<x[2], x[1], ncore + x[3]>>]
        - ppp[<<ncore + x[3], x[2], x[1]>>]]

\* MCSCFinplace_cvcv_uhf: jcvcv = cvcv*2 - cvcv.transpose(2,1,0,3)
\*                                        - ccvv.transpose(0,2,1,3)
\* for one core orbital; vcp[a, j, q] and cpp[j, r, s] are its two cubes.
MCSCFinplace_cvcv_uhf(vcp, cpp, ncore, ncas, nmo) ==
    [x \in Idx3(<<nmo - ncore, ncore, nmo - ncore>>) |->
        2 * vcp[<<x[1], x[2], ncore + x[3]>>]
        - vcp[<<x[3], x[2], ncore + x[1]>>]
        - cpp[<<x[2], ncore + x[1], ncore + x[3]>>]]

\* pyscf.ao2mo.direct._memory_and_ioblk_size: the word budget of the cache.
memory_words(max_mem) == max_mem \div 8

\* pyscf.ao2mo.outcore._info_sh_ranges(mol, buflen): contiguous shell ranges
\* (start, end, pair count), in increasing order, covering every shell once;
\* a range is closed when the next shell would exceed buflen pairs.
RECURSIVE sh_ranges_from(_, _, _, _)
sh_ranges_from(start, cur, nbas, buflen) ==
    IF cur = nbas
    THEN IF start = cur THEN <<>> ELSE << <<start, cur, NPair(cur) - NPair(start)>> >>
    ELSE IF cur > start /\ NPair(cur + 1) - NPair(start) > buflen
         THEN << <<start, cur, NPair(cur) - NPair(start)>> >>
              \o sh_ranges_from(cur, cur, nbas, buflen)
         ELSE sh_ranges_from(start, cur + 1, nbas, buflen)

info_sh_ranges(nbas, buflen) == sh_ranges_from(0, 0, nbas, buflen)

\* ------------------------------------------------------------ the drivers
\* The (mo, ncore) arguments of a driver call with spin p as primary.
SpinArgs(pair, p) == IF p = 1 THEN pair ELSE <<pair[2], pair[1]>>

\* _trans_aapp_: the output arrays, allocated uninitialised.
aapp_alloc(nc, ncas_, nmo_) ==
    [japcv |-> np_empty(<<ncas_, nmo_, nc[1], nmo_ - nc[1]>>),
     aapp  |-> np_empty(<<ncas_, ncas_, nmo_, nmo_>>),
     aaPP  |-> np_empty(<<ncas_, ncas_, nmo_, nmo_>>),
     appa  |-> np_empty(<<ncas_, nmo_, nmo_, ncas_>>),
     apPA  |-> np_empty(<<ncas_, nmo_, nmo_, ncas_>>),
     apCV  |-> np_empty(<<ncas_, nmo_, nc[2], nmo_ - nc[2]>>)]

\* The cube ppp of one active orbital: row j of the packed second-half
\* transform of its loaded row, unpacked to (k, l).
ppp_cube(row, molk, nmo_) ==
    LET buf == nr_e2_(row, molk, <<0, nmo_, 0, nmo_>>, nmo_)
    IN  Evaluated([x \in Idx3(<<nmo_, nmo_, nmo_>>) |->
                      NPdunpack_tril(buf, x[1], x[2], x[3])])

\* The window taken from orbital 0 instead of the first active orbital.
aapp_window_zero(nc) == 0

\* First orbital of the active window sliced out of ppp in the driver.
aapp_window(nc) == nc[1]

\* One iteration of the loop of _trans_aapp_ over the active orbital i; row1
\* and row2 are the results of its two fload(ncore[0]+i) calls.
aapp_iter(d, m, nc, ncas_, nmo_, i, row1, row2) ==
    LET ppp1 == ppp_cube(row1, m[1], nmo_)
        ppp2 == ppp_cube(row2, m[2], nmo_)
        a0 == aapp_window(nc)
        jap == MCSCFinplace_apcv_uhf(ppp1, nc[1], ncas_, nmo_)
    IN  [japcv |-> Assign(d.japcv,
                     [x \in {i} \X Rng(nmo_) \X Rng(nc[1]) \X Rng(nmo_ - nc[1]) |->
                        jap[<<x[2], x[3], x[4]>>]]),
         aapp  |-> Assign(d.aapp,
                     [x \in {i} \X Rng(ncas_) \X Rng(nmo_) \X Rng(nmo_) |->
                        ppp1[<<a0 + x[2], x[3], x[4]>>]]),
         appa  |-> Assign(d.appa,
                     [x \in {i} \X Rng(nmo_) \X Rng(nmo_) \X Rng(ncas_) |->
                        ppp1[<<x[2], x[3], a0 + x[4]>>]]),
         aaPP  |-> Assign(d.aaPP,
                     [x \in {i} \X Rng(ncas_) \X Rng(nmo_) \X Rng(nmo_) |->
                        ppp2[<<a0 + x[2], x[3], x[4]>>]]),
         apPA  |-> Assign(d.apPA,
                     [x \in {i} \X Rng(nmo_) \X Rng(nmo_) \X Rng(ncas_) |->
                        ppp2[<<x[2], x[3], nc[2] + x[4]>>]]),
         apCV  |-> Assign(d.apCV,
                     [x \in {i} \X Rng(nmo_) \X Rng(nc[2]) \X Rng(nmo_ - nc[2]) |->
                        ppp2[<<x[2], x[3], nc[2] + x[4]>>]])]

\* The allocation with the virtual count nmo - ncore - ncas in place of nmo - ncore.
cvcv_alloc_nvirt(nc, ncas_, nmo_) ==
    [jc_pp |-> np_empty(<<nc[1], nmo_, nmo_>>),
     jc_PP |-> np_zeros(<<nmo_, nmo_>>),
     kc_pp |-> np_empty(<<nc[1], nmo_, nmo_>>),
     jcvcv |-> np_zeros(<<nc[1], nmo_ - nc[1] - ncas_, nc[1], nmo_ - nc[1] - ncas_>>),
     cvCV  |-> np_empty(<<nc[1], nmo_ - nc[1] - ncas_, nc[2], nmo_ - nc[2] - ncas_>>)]

\* _trans_cvcv_: the output arrays; the two accumulators start at zero.
cvcv_alloc(nc, ncas_, nmo_) ==
    [jc_pp |-> np_empty(<<nc[1], nmo_, nmo_>>),
     jc_PP |-> np_zeros(<<nmo_, nmo_>>),
     kc_pp |-> np_empty(<<nc[1], nmo_, nmo_>>),
     jcvcv |-> np_zeros(<<nc[1], nmo_ - nc[1], nc[1], nmo_ - nc[1]>>),
     cvCV  |-> np_empty(<<nc[1], nmo_ - nc[1], nc[2], nmo_ - nc[2]>>)]

\* klshape of the same-spin core x all transform that fills vcp.
vcp_klshape(nc, nmo_) == <<nmo_, nc[1], 0, nmo_>>

\* klshape of the cross-spin core x non-core transform that fills cvCV[i].
cvCV_klshape(nc, nmo_) == <<nmo_, nc[2], nc[2], nmo_ - nc[2]>>

\* The second half transformation of the core rows left out: buf unchanged.
e2_inplace_skipped(buf, molk, nc0, nmo_) == buf

\* nr_e2_(buf[:ncore[0]], molk[0], klshape, buf[:ncore[0]]): the packed result
\* overwrites the first ncore[0] rows of the loaded buffer in place.
e2_inplace(buf, molk, nc0, nmo_) ==
    LET out == nr_e2_(Rows(buf, 0, nc0), molk, <<0, nmo_, 0, nmo_>>, nmo_)
    IN  Assign(buf, out.dat)

\* kc_pp[i, ncore[0]:] = vcp[:, i]: the rows of kc_pp[i] taken from vcp.
kc_rows_vcp(nc, nmo_) == nc[1] .. (nmo_ - 1)

\* The core rows with the last one left out.
kc_rows_cpp_short(nc) == 0 .. (nc[1] - 2)

\* kc_pp[i, :ncore[0]] = cpp[:, i]: the rows of kc_pp[i] taken from cpp.
kc_rows_cpp(nc) == 0 .. (nc[1] - 1)

\* The row of core orbital 0 in every iteration.
jc_row_first(i) == 0

\* buf[i:i+1]: the row of the loaded buffer whose transform is added to jc_PP.
jc_row(i) == i

\* One iteration of the loop of _trans_cvcv_ over the core orbital i; buf is
\* the result of fload(i).
cvcv_iter(d, m, nc, ncas_, nmo_, i, buf) ==
    LET molk == <<hstack(m[1], nmo_, nc[1] + ncas_), hstack(m[2], nmo_, nc[2] + ncas_)>>
        nv1 == nmo_ - nc[1]
        nv2 == nmo_ - nc[2]
        cv == nr_e2_(Rows(buf, nc[1], nmo_), molk[2], cvCV_klshape(nc, nmo_), nmo_)
        tmp == nr_e2_(Rows(buf, jc_row(i), jc_row(i) + 1), molk[2], <<0, nmo_, 0, nmo_>>, nmo_)
        vcpf == nr_e2_(Rows(buf, nc[1], nmo_), molk[1], vcp_klshape(nc, nmo_), nmo_)
        vcp == Evaluated([x \in Idx3(<<nv1, nc[1], nmo_>>) |->
                            vcpf.dat[<<x[1], x[2] * nmo_ + x[3]>>]])
        bufw == e2_inplace(buf, molk[1], nc[1], nmo_)
        cpp == Evaluated([x \in Idx3(<<nc[1], nmo_, nmo_>>) |->
                            NPdunpack_tril(bufw, x[1], x[2], x[3])])
        jcv == MCSCFinplace_cvcv_uhf(vcp, cpp, nc[1], ncas_, nmo_)
    IN  [cvCV  |-> Assign(d.cvCV,
                     [x \in {i} \X Rng(nv1) \X Rng(nc[2]) \X Rng(nv2) |->
                        cv.dat[<<x[2], x[3] * nv2 + x[4]>>]]),
         jc_PP |-> [shape |-> d.jc_PP.shape,
                    dat |-> [x \in Idx2(<<nmo_, nmo_>>) |->
                               d.jc_PP.dat[x] + NPdunpack_tril(tmp, 0, x[1], x[2])]],
         kc_pp |-> Assign(
                     Assign(d.kc_pp,
                        [x \in {i} \X kc_rows_vcp(nc, nmo_) \X Rng(nmo_) |->
                           vcp[<<x[2] - nc[1], i, x[3]>>]]),
                     [x \in {i} \X kc_rows_cpp(nc) \X Rng(nmo_) |->
                        cpp[<<x[2], i, x[3]>>]]),
         jc_pp |-> Assign(d.jc_pp,
                     [x \in {i} \X Rng(nmo_) \X Rng(nmo_) |-> cpp[<<i, x[2], x[3]>>]]),
         jcvcv |-> Assign(d.jcvcv,
                     [x \in {i} \X Rng(nv1) \X Rng(nc[1]) \X Rng(nv1) |->
                        jcv[<<x[2], x[3], x[4]>>]])]

\* ------------------------------------------------------------ row loaders
\* trans_e1_incore: load_buf = lambda bufid: erib[bufid*nmo:bufid*nmo+nmo].copy()
load_buf_incore(eri_half, nmo_, bufid) == Rows(eri_half, bufid * nmo_, bufid * nmo_ + nmo_)

\* The loaded rows taken as a view of the array (the slice without .copy()):
\* what is written into the loaded buffer is written into the array.
store_after_write_view(arr, nmo_, bufid, bufw) ==
    Assign(arr, [x \in ((bufid * nmo_) .. (bufid * nmo_ + nmo_ - 1)) \X Rng(arr.shape[2]) |->
                    bufw.dat[<<x[1] - bufid * nmo_, x[2]>>]])

\* The array erib / eria after the driver has written bufw into the buffer
\* it loaded as column bufid: the buffer is a copy (.copy()), the array is
\* what it was.
store_after_write(arr, nmo_, bufid, bufw) == arr

\* trans_e1_outcore: the loop of load_buf from step ic on, col0 the next free column.
RECURSIVE load_steps(_, _, _, _, _, _)
load_steps(buf, store, nsteps, ic, col0, bfn_id) ==
    IF ic = nsteps
    THEN buf
    ELSE LET dat == store[<<ic, bfn_id>>]
             col1 == col0 + dat.shape[2]
         IN  load_steps(
                 Assign(buf, [x \in Rng(buf.shape[1]) \X (col0 .. (col1 - 1)) |->
                                dat.dat[<<x[1], x[2] - col0>>]]),
                 store, nsteps, ic + 1, col1, bfn_id)

\* load_buf reading the block of the first step only.
load_buf_first_step(store, ranges, nmo_, nao_pair, bfn_id) ==
    load_steps(np_empty(<<nmo_, nao_pair>>), store, 1, 0, 0, bfn_id)

\* trans_e1_outcore: load_buf(bfn_id) assembles the row from the swap store.
load_buf_outcore(store, ranges, nmo_, nao_pair, bfn_id) ==
    load_steps(np_empty(<<nmo_, nao_pair>>), store, Len(ranges), 0, 0, bfn_id)

\* The write loop without the last occupied column.
swap_blocks_short(buf, istep_, nocc_, nmo_) ==
    [key \in {istep_} \X Rng(nocc_ - 1) |->
        LET sh == <<nmo_, buf.shape[1]>>
        IN  [shape |-> sh,
             dat |-> [x \in Idx2(sh) |-> buf.dat[<<x[2], key[2] * nmo_ + x[1]>>]]]]

\* The blocks written to the swap store in step istep_: for every occupied
\* column ic the transpose of buf[:, ic*nmo : ic*nmo+nmo].
swap_blocks(buf, istep_, nocc_, nmo_) ==
    [key \in {istep_} \X Rng(nocc_) |->
        LET sh == <<nmo_, buf.shape[1]>>
        IN  [shape |-> sh,
             dat |-> [x \in Idx2(sh) |-> buf.dat[<<x[2], key[2] * nmo_ + x[1]>>]]]]

\* ijshape = (nmo, nocc, 0, nmo): i over the appended occupied columns of moji.
e1_ijshape(nmo_, nocc_) == <<nmo_, nocc_, 0, nmo_>>

\* e1_buflen = min(int(mem_words//nij_pair), nao_pair)
e1_buflen_of(max_mem, nij_pair, nao_pair) ==
    LET q == memory_words(max_mem) \div nij_pair
    IN  IF q < nao_pair THEN q ELSE nao_pair

\* ------------------------------------------------------ strategy selection
\* The return value of the source times MemScale is the integer of the model.
MemScale == 16000000

\* Number of bytes of one megabyte, the unit the 8/1e6 factor converts to.
BytesPerMB == 1000000

\* The element count of the out-of-core estimate, times 16: the bracket of
\* lines 301-302 before its factor 8/1e6, ncore the spin-averaged core count.
outcore_words16(nc, ncas_, nmo_) ==
    LET s == nc[1] + nc[2]
        v == 2 * nmo_ - s
    IN  3 * s * s * v * v + 16 * ncas_ * nmo_ * s * v + 24 * s * nmo_ * nmo_
        + 112 * ncas_ * ncas_ * nmo_ * nmo_ + 32 * nmo_ * nmo_ * nmo_

\* The pair returned in the order (outcore, incore).
mem_usage_swapped(nc, ncas_, nmo_) ==
    LET out == 8 * outcore_words16(nc, ncas_, nmo_)
    IN  <<out, out + 16 * nmo_ * nmo_ * nmo_ * nmo_
                   + 32 * (nc[1] + nc[2]) * nmo_ * nmo_ * nmo_>>

\* The estimate with the factor 7 of the ncas^2*nmo^2 term left out.
mem_usage_lean(nc, ncas_, nmo_) ==
    LET s == nc[1] + nc[2]
        v == 2 * nmo_ - s
        outcore == (3 * s * s * v * v + 16 * ncas_ * nmo_ * s * v + 24 * s * nmo_ * nmo_
                    + 16 * ncas_ * ncas_ * nmo_ * nmo_ + 32 * nmo_ * nmo_ * nmo_) * 8
        incore == outcore + 16 * nmo_ * nmo_ * nmo_ * nmo_ + 32 * s * nmo_ * nmo_ * nmo_
    IN  <<incore, outcore>>

\* _mem_usage(ncore, ncas, nmo) = (incore, outcore), here in units of 1/16
\* byte (the source's MB times 16e6), which keeps the spin-averaged core
\* count (ncore[0]+ncore[1])*.5 and its squares integral.
mem_usage(nc, ncas_, nmo_) ==
    LET s == nc[1] + nc[2]
        v == 2 * nmo_ - s
        outcore == (3 * s * s * v * v + 16 * ncas_ * nmo_ * s * v + 24 * s * nmo_ * nmo_
                    + 112 * ncas_ * ncas_ * nmo_ * nmo_ + 32 * nmo_ * nmo_ * nmo_) * 8
        incore == outcore + 16 * nmo_ * nmo_ * nmo_ * nmo_ + 32 * s * nmo_ * nmo_ * nmo_
    IN  <<incore, outcore>>

\* The test with 2*nmo**4 words (of 8 bytes) in place of 2*nmo**4 bytes.
mem_exceeds_words(nc, ncas_, nmo_, max_mem) ==
    10 * (mem_usage(nc, ncas_, nmo_)[1] + 256 * nmo_ * nmo_ * nmo_ * nmo_) > 9 * 16 * max_mem

\* _mem_usage(ncore, ncas, nmo)[0] + nmo**4*2/1e6 > casscf.max_memory*.9
\* (max_mem in bytes, both sides times 160).
mem_exceeds(nc, ncas_, nmo_, max_mem) ==
    10 * (mem_usage(nc, ncas_, nmo_)[1] + 32 * nmo_ * nmo_ * nmo_ * nmo_) > 9 * 16 * max_mem

\* The selection without the fall-back to the out-of-core branch when
\* casscf._scf._eri is None.
select_engine_strict(meth, nc, ncas_, nmo_, max_mem, has_eri) ==
    IF meth = "outcore" \/ mem_exceeds(nc, ncas_, nmo_, max_mem)
    THEN "outcore"
    ELSE IF meth = "incore" /\ has_eri
         THEN "incore"
         ELSE "KeyError"

\* The branch _ERIS.__init__ takes.
select_engine(meth, nc, ncas_, nmo_, max_mem, has_eri) ==
    IF meth = "outcore" \/ mem_exceeds(nc, ncas_, nmo_, max_mem) \/ ~has_eri
    THEN "outcore"
    ELSE IF meth = "incore" /\ has_eri
         THEN "incore"
         ELSE "KeyError"

\* ---------------------------------------------------------------- state
VARIABLES
    nao, nmo,       \* mo[0].shape
    mo,             \* the MO coefficient matrices <<alpha, beta>>
    ncore, ncas,    \* casscf.ncore = <<alpha, beta>>, casscf.ncas
    ao_ints,        \* the AO integrals of casscf.mol (and of casscf._scf._eri)
    eri_avail,      \* casscf._scf._eri is not None
    max_memory,     \* casscf.max_memory
    method,         \* the method argument of the current _ERIS call
    ncalls,         \* number of _ERIS constructions started
    pc,             \* position of the current call
    err,            \* the exception that ended the call, or "none"
    engine,         \* the branch taken: "incore", "outcore", "KeyError"
    pass,           \* primary spin of the pass: 2 (beta, first), then 1 (alpha)
    ish_ranges,     \* shell ranges of the pass (out-of-core)
    istep,          \* shell ranges written so far
    fswap,          \* the swap store of the pass: (istep, ic) -> block
    swap_open,      \* the swap store is open
    eri_half,       \* erib / eria of the pass (in-core)
    drv,            \* the arrays of the running driver
    di,             \* its loop index
    loc,            \* the local names of the engine bound so far
    eris,           \* the attributes of the _ERIS object under construction
    prev,           \* the attributes of the previously constructed object
    prev_engine,    \* and the branch that produced them
    trace,          \* events of the current engine call, in order
    tril_pc,        \* position of the pack / unpack round trip
    c_nmo,          \* its matrix dimension
    mat_in,         \* the matrix that is packed
    tril,           \* its packed lower triangle (one row of a packed buffer)
    mat,            \* the matrix filled by the unpacker
    cell_pc,        \* position of Cell.build: "off", "set", "classified", "raised"
    ecp0, pp0,      \* cell.ecp and cell.pseudo as the caller set them
    self_ecp,       \* cell.ecp
    self_pseudo,    \* cell.pseudo
    cell_err,       \* the exception that ended the build, or "none"
    cell_info,      \* the messages passed to logger.info
    ser,            \* the dumps / loads round trip of a cell
    env,            \* one call of Cell.make_ecp_env
    jk              \* one call of mdf_jk.get_jk

\* The variables of the integral transformation.
engine_vars == <<nao, nmo, mo, ncore, ncas, ao_ints, eri_avail, max_memory, method, ncalls,
                 pc, err, engine, pass, ish_ranges, istep, fswap, swap_open, eri_half,
                 drv, di, loc, eris, prev, prev_engine, trace>>

\* The variables of the pack / unpack round trip.
tril_vars == <<tril_pc, c_nmo, mat_in, tril, mat>>

\* The variables of the pseudopotential set-up of Cell.build.
cell_vars == <<cell_pc, ecp0, pp0, self_ecp, self_pseudo, cell_err, cell_info>>

\* The variables of the calls modelled one at a time.
call_vars == <<ser, env, jk>>

\* Everything the integral transformation leaves alone.
aux == <<tril_vars, cell_vars, call_vars>>

vars == <<engine_vars, aux>>

inputs == <<nao, nmo, mo, ncore, ncas, ao_ints, eri_avail, max_memory>>

\* A name that is not bound (yet).
Unbound == [shape |-> <<>>, dat |-> <<>>]

FieldNames ==
    <<"jkcpp", "jkcPP", "jC_pp", "jc_PP", "aapp", "aaPP", "AApp", "AAPP", "appa",
      "apPA", "APPA", "Iapcv", "IAPCV", "apCV", "APcv", "Icvcv", "ICVCV", "cvCV">>

NoBundle ==
    [jkcpp |-> Unbound, jkcPP |-> Unbound, jC_pp |-> Unbound, jc_PP |-> Unbound,
     aapp |-> Unbound, aaPP |-> Unbound, AApp |-> Unbound, AAPP |-> Unbound,
     appa |-> Unbound, apPA |-> Unbound, APPA |-> Unbound,
     Iapcv |-> Unbound, IAPCV |-> Unbound, apCV |-> Unbound, APcv |-> Unbound,
     Icvcv |-> Unbound, ICVCV |-> Unbound, cvCV |-> Unbound]

NoLocals ==
    [AAPP |-> Unbound, AApp |-> Unbound, APPA |-> Unbound, tmp |-> Unbound,
     IAPCV |-> Unbound, APcv |-> Unbound,
     jC_PP |-> Unbound, jC_pp |-> Unbound, kC_PP |-> Unbound, ICVCV |-> Unbound,
     aapp |-> Unbound, aaPP |-> Unbound, appa |-> Unbound, apPA |-> Unbound,
     Iapcv |-> Unbound, apCV |-> Unbound,
     jc_pp |-> Unbound, jc_PP |-> Unbound, kc_pp |-> Unbound, Icvcv |-> Unbound,
     cvCV |-> Unbound]

\* The round trip is not running.
TrilOff ==
    /\ tril_pc = "off"
    /\ c_nmo = 0
    /\ mat_in = <<>>
    /\ tril = <<>>
    /\ mat = <<>>

\* No cell is being built.
CellOff ==
    /\ cell_pc = "off"
    /\ ecp0 = <<>> /\ pp0 = <<>>
    /\ self_ecp = <<>> /\ self_pseudo = <<>>
    /\ cell_err = "none"
    /\ cell_info = <<>>

\* No cell is being serialized.
SerOff == ser = [pc |-> "off"]

\* make_ecp_env is not running.
EnvOff == env = [pc |-> "off"]

\* get_jk is not running.
JkOff == jk = [pc |-> "off"]

Init ==
    /\ nmo \in 1 .. MaxNmo
    /\ nao = nmo
    /\ ncas \in 0 .. nmo
    /\ ncore \in (0 .. (nmo - ncas)) \X (0 .. (nmo - ncas))
    /\ mo = <<MoMat(1, nmo), MoMat(2, nmo)>>
    /\ ao_ints = AoInts(nao)
    /\ eri_avail \in BOOLEAN
    /\ max_memory \in MemChoices
    /\ method = "none"
    /\ ncalls = 0
    /\ pc = "idle"
    /\ err = "none"
    /\ engine = "none"
    /\ pass = 2
    /\ ish_ranges = <<>>
    /\ istep = 0
    /\ fswap = <<>>
    /\ swap_open = FALSE
    /\ eri_half = Unbound
    /\ drv = <<>>
    /\ di = 0
    /\ loc = NoLocals
    /\ eris = NoBundle
    /\ prev = NoBundle
    /\ prev_engine = "none"
    /\ trace = <<>>
    /\ TrilOff
    /\ CellOff
    /\ SerOff /\ EnvOff /\ JkOff

\* nocc = (ncore[0] + ncas, ncore[1] + ncas)
nocc == <<ncore[1] + ncas, ncore[2] + ncas>>

\* ------------------------------------------------------ _ERIS.__init__
\* The call _ERIS(casscf, mo, m): the branch is chosen; a method that is
\* neither 'outcore' nor 'incore' raises KeyError('update ao2mo') when no
\* other condition selects the out-of-core branch.
Call(m) ==
    /\ ncalls' = ncalls + 1
    /\ method' = m
    /\ prev' = eris
    /\ prev_engine' = engine
    /\ eris' = NoBundle
    /\ loc' = NoLocals
    /\ engine' = select_engine(m, ncore, ncas, nmo, max_memory, eri_avail)
    /\ pass' = 2
    /\ pc' = CASE engine' = "outcore" -> "out_setup"
               [] engine' = "incore" -> "in_e1"
               [] OTHER -> "raised"
    /\ err' = IF engine' = "KeyError" THEN "KeyError" ELSE "none"
    /\ ish_ranges' = <<>>
    /\ istep' = 0
    /\ fswap' = <<>>
    /\ swap_open' = FALSE
    /\ eri_half' = Unbound
    /\ drv' = <<>>
    /\ di' = 0
    /\ trace' = <<>>
    /\ UNCHANGED <<inputs, aux>>

\* The first construction on the casscf object, with any method.
ERIS_init(m) ==
    /\ pc = "idle"
    /\ Call(m)

\* The cross-check of __main__: after eris0 = _ERIS(mc, mo, 'incore') has
\* run in core, eris1 = _ERIS(mc, mo, 'outcore') on the same object.
CrossCheck ==
    /\ pc = "done"
    /\ ncalls = 1
    /\ engine = "incore"
    /\ Call("outcore")

\* ------------------------------------------------------ trans_e1_incore
\* The alpha pass run on the array erib left by the beta pass.
InE1_reuse ==
    /\ pc = "in_e1"
    /\ eri_half' = IF pass = 1
                   THEN eri_half
                   ELSE nr_e1_incore_(ao_ints, hstack(mo[pass], nmo, nocc[pass]),
                                      e1_ijshape(nmo, nocc[pass]), nao)
    /\ drv' = aapp_alloc(SpinArgs(ncore, pass), ncas, nmo)
    /\ di' = 0
    /\ pc' = "aapp"
    /\ UNCHANGED <<inputs, aux, method, ncalls, err, engine, pass, ish_ranges, istep,
                   fswap, swap_open, loc, eris, prev, prev_engine, trace>>

\* erib (pass 2) or eria (pass 1): the whole half-transformed array.
InE1 ==
    /\ pc = "in_e1"
    /\ eri_half' = nr_e1_incore_(ao_ints, hstack(mo[pass], nmo, nocc[pass]),
                                 e1_ijshape(nmo, nocc[pass]), nao)
    /\ drv' = aapp_alloc(SpinArgs(ncore, pass), ncas, nmo)
    /\ di' = 0
    /\ pc' = "aapp"
    /\ UNCHANGED <<inputs, aux, method, ncalls, err, engine, pass, ish_ranges, istep,
                   fswap, swap_open, loc, eris, prev, prev_engine, trace>>

\* ------------------------------------------------------ trans_e1_outcore
\* Buffer sizing, shell ranges and the creation of the swap store of the
\* pass; mem_words//nij_pair divides by zero when the channel has no
\* occupied orbital.
OutSetup ==
    /\ pc = "out_setup"
    /\ nocc[pass] * nmo > 0
    /\ ish_ranges' = info_sh_ranges(nao, e1_buflen_of(max_memory, nocc[pass] * nmo, NPair(nao)))
    /\ istep' = 0
    /\ fswap' = <<>>
    /\ swap_open' = TRUE
    /\ pc' = "out_write"
    /\ trace' = trace \o << <<"open", pass>> >>
    /\ UNCHANGED <<inputs, aux, method, ncalls, err, engine, pass, eri_half, drv, di,
                   loc, eris, prev, prev_engine>>

OutSetupZeroDiv ==
    /\ pc = "out_setup"
    /\ nocc[pass] * nmo = 0
    /\ err' = "ZeroDivisionError"
    /\ pc' = "raised"
    /\ UNCHANGED <<inputs, aux, method, ncalls, engine, pass, ish_ranges, istep, fswap,
                   swap_open, eri_half, drv, di, loc, eris, prev, prev_engine, trace>>

\* The last step of the write loop left out: the drivers start one step early.
OutWrite_early ==
    /\ pc = "out_write"
    /\ istep < Len(ish_ranges)
    /\ LET buf == nr_e1range_(ao_ints, hstack(mo[pass], nmo, nocc[pass]),
                              ish_ranges[istep + 1], e1_ijshape(nmo, nocc[pass]), nao)
       IN  fswap' = swap_blocks(buf, istep, nocc[pass], nmo) @@ fswap
    /\ istep' = istep + 1
    /\ IF istep' >= Len(ish_ranges) - 1
       THEN /\ pc' = "aapp"
            /\ drv' = aapp_alloc(SpinArgs(ncore, pass), ncas, nmo)
            /\ di' = 0
       ELSE UNCHANGED <<pc, drv, di>>
    /\ trace' = trace \o << <<"eval", pass, istep>>, <<"write", pass, istep>> >>
    /\ UNCHANGED <<inputs, aux, method, ncalls, err, engine, pass, ish_ranges,
                   swap_open, eri_half, loc, eris, prev, prev_engine>>

\* One step of the write loop: the block of shell range istep is evaluated
\* and its nocc column blocks are written to the swap store.
OutWrite ==
    /\ pc = "out_write"
    /\ istep < Len(ish_ranges)
    /\ LET buf == nr_e1range_(ao_ints, hstack(mo[pass], nmo, nocc[pass]),
                              ish_ranges[istep + 1], e1_ijshape(nmo, nocc[pass]), nao)
       IN  fswap' = swap_blocks(buf, istep, nocc[pass], nmo) @@ fswap
    /\ istep' = istep + 1
    /\ IF istep' = Len(ish_ranges)
       THEN /\ pc' = "aapp"
            /\ drv' = aapp_alloc(SpinArgs(ncore, pass), ncas, nmo)
            /\ di' = 0
       ELSE UNCHANGED <<pc, drv, di>>
    /\ trace' = trace \o << <<"eval", pass, istep>>, <<"write", pass, istep>> >>
    /\ UNCHANGED <<inputs, aux, method, ncalls, err, engine, pass, ish_ranges,
                   swap_open, eri_half, loc, eris, prev, prev_engine>>

\* The failure handled by one more evaluation of the same shell range.
OutWriteMemoryError_retry ==
    /\ pc = "out_write"
    /\ istep < Len(ish_ranges)
    /\ \A k \in 1 .. Len(trace) : trace[k] # <<"warn", pass, istep>>
    /\ trace' = trace \o << <<"eval", pass, istep>>, <<"warn", pass, istep>> >>
    /\ UNCHANGED <<inputs, aux, method, ncalls, pc, err, engine, pass, ish_ranges,
                   istep, fswap, swap_open, eri_half, drv, di, loc, eris, prev,
                   prev_engine>>

\* The failure handled by returning what the first pass has bound so far.
OutWriteMemoryError_partial ==
    /\ pc = "out_write"
    /\ istep < Len(ish_ranges)
    /\ err' = "MemoryError"
    /\ pc' = "raised"
    /\ eris' = [NoBundle EXCEPT !.AAPP = loc.AAPP, !.IAPCV = loc.IAPCV]
    /\ trace' = trace \o << <<"eval", pass, istep>>, <<"warn", pass, istep>> >>
    /\ UNCHANGED <<inputs, aux, method, ncalls, engine, pass, ish_ranges, istep, fswap,
                   swap_open, eri_half, drv, di, loc, prev, prev_engine>>

\* The evaluation of the block raises MemoryError: warn and re-raise.
OutWriteMemoryError ==
    /\ pc = "out_write"
    /\ istep < Len(ish_ranges)
    /\ err' = "MemoryError"
    /\ pc' = "raised"
    /\ trace' = trace \o << <<"eval", pass, istep>>, <<"warn", pass, istep>> >>
    /\ UNCHANGED <<inputs, aux, method, ncalls, engine, pass, ish_ranges, istep, fswap,
                   swap_open, eri_half, drv, di, loc, eris, prev, prev_engine>>

\* The pass left without closing its swap store.
OutClose_skipped ==
    /\ pc = "close"
    /\ IF pass = 2
       THEN pass' = 1 /\ pc' = "out_setup"
       ELSE pass' = pass /\ pc' = "finish"
    /\ UNCHANGED <<inputs, aux, method, ncalls, err, engine, ish_ranges, istep, fswap,
                   swap_open, eri_half, drv, di, loc, eris, prev, prev_engine, trace>>

\* fswap.close() after the two drivers of the pass.
OutClose ==
    /\ pc = "close"
    /\ swap_open' = FALSE
    /\ IF pass = 2
       THEN pass' = 1 /\ pc' = "out_setup"
       ELSE pass' = pass /\ pc' = "finish"
    /\ trace' = trace \o << <<"close", pass>> >>
    /\ UNCHANGED <<inputs, aux, method, ncalls, err, engine, ish_ranges, istep, fswap,
                   eri_half, drv, di, loc, eris, prev, prev_engine>>

\* ------------------------------------------------------------- drivers
\* The events of a call: "open" and "close" of the swap store of a pass,
\* "eval" of a shell range by nr_e1range_, "warn" (the logged warning),
\* "write" of the blocks of a step (these five out-of-core only), "read" (one
\* load_buf call, with its column id), "aapp" and "cvcv" (the return of a
\* driver).
Logged(events) == trace \o events

\* The row loader of the running engine.
fload(bufid) ==
    IF engine = "incore"
    THEN load_buf_incore(eri_half, nmo, bufid)
    ELSE load_buf_outcore(fswap, ish_ranges, nmo, NPair(nao), bufid)

\* The column id without the core offset.
aapp_bufid_nocore(nc, i) == i

\* Column id loaded by iteration i of _trans_aapp_: fload(ncore[0]+i).
aapp_bufid(nc, i) == nc[1] + i

\* The iteration with one load_buf call whose row serves both spins.
AappIter_once ==
    /\ pc = "aapp"
    /\ di < ncas
    /\ LET nc == SpinArgs(ncore, pass)
           row == fload(aapp_bufid(nc, di))
       IN  drv' = aapp_iter(drv, SpinArgs(mo, pass), nc, ncas, nmo, di, row, row)
    /\ di' = di + 1
    /\ trace' = Logged(<< <<"read", pass, aapp_bufid(SpinArgs(ncore, pass), di)>> >>)
    /\ UNCHANGED <<inputs, aux, method, ncalls, pc, err, engine, pass, ish_ranges,
                   istep, fswap, swap_open, eri_half, loc, eris, prev, prev_engine>>

\* One iteration of the loop of _trans_aapp_: two load_buf calls of the same
\* column id, one for each second-half transformation.
AappIter ==
    /\ pc = "aapp"
    /\ di < ncas
    /\ LET nc == SpinArgs(ncore, pass)
       IN  drv' = aapp_iter(drv, SpinArgs(mo, pass), nc, ncas, nmo, di,
                            fload(aapp_bufid(nc, di)), fload(aapp_bufid(nc, di)))
    /\ di' = di + 1
    /\ trace' = Logged(<< <<"read", pass, aapp_bufid(SpinArgs(ncore, pass), di)>>,
                       <<"read", pass, aapp_bufid(SpinArgs(ncore, pass), di)>> >>)
    /\ UNCHANGED <<inputs, aux, method, ncalls, pc, err, engine, pass, ish_ranges,
                   istep, fswap, swap_open, eri_half, loc, eris, prev, prev_engine>>

\* The names the engine binds the result of _trans_aapp_ to.
bind_aapp(l, d, p) ==
    IF p = 2
    THEN [l EXCEPT !.AAPP = d.aapp, !.AApp = d.aaPP, !.APPA = d.appa, !.tmp = d.apPA,
                   !.IAPCV = d.japcv, !.APcv = d.apCV]
    ELSE [l EXCEPT !.aapp = d.aapp, !.aaPP = d.aaPP, !.appa = d.appa, !.apPA = d.apPA,
                   !.Iapcv = d.japcv, !.apCV = d.apCV]

AappReturn ==
    /\ pc = "aapp"
    /\ di = ncas
    /\ loc' = bind_aapp(loc, drv, pass)
    /\ drv' = cvcv_alloc(SpinArgs(ncore, pass), ncas, nmo)
    /\ di' = 0
    /\ pc' = "cvcv"
    /\ trace' = Logged(<< <<"aapp", pass>> >>)
    /\ UNCHANGED <<inputs, aux, method, ncalls, err, engine, pass, ish_ranges, istep,
                   fswap, swap_open, eri_half, eris, prev, prev_engine>>

\* One iteration of the loop of _trans_cvcv_; its in-place transformation
\* writes into the buffer the loader returned (a copy in core; out of core a
\* new array filled from the swap store, which is only read).
CvcvIter ==
    /\ pc = "cvcv"
    /\ di < SpinArgs(ncore, pass)[1]
    /\ drv' = cvcv_iter(drv, SpinArgs(mo, pass), SpinArgs(ncore, pass), ncas, nmo, di,
                        fload(di))
    /\ di' = di + 1
    /\ trace' = Logged(<< <<"read", pass, di>> >>)
    /\ eri_half' = IF engine = "incore"
                   THEN store_after_write(
                            eri_half, nmo, di,
                            e2_inplace(fload(di),
                                       hstack(mo[pass], nmo, nocc[pass]),
                                       SpinArgs(ncore, pass)[1], nmo))
                   ELSE eri_half
    /\ UNCHANGED <<inputs, aux, method, ncalls, pc, err, engine, pass, ish_ranges,
                   istep, fswap, swap_open, loc, eris, prev, prev_engine>>

\* The names the engine binds the result of _trans_cvcv_ to (the beta pass
\* keeps the first four only).
bind_cvcv(l, d, p) ==
    IF p = 2
    THEN [l EXCEPT !.jC_PP = d.jc_pp, !.jC_pp = d.jc_PP, !.kC_PP = d.kc_pp,
                   !.ICVCV = d.jcvcv]
    ELSE [l EXCEPT !.jc_pp = d.jc_pp, !.jc_PP = d.jc_PP, !.kc_pp = d.kc_pp,
                   !.Icvcv = d.jcvcv, !.cvCV = d.cvCV]

CvcvReturn ==
    /\ pc = "cvcv"
    /\ di = SpinArgs(ncore, pass)[1]
    /\ loc' = bind_cvcv(loc, drv, pass)
    /\ drv' = <<>>
    /\ IF engine = "outcore"
       THEN pc' = "close" /\ pass' = pass
       ELSE IF pass = 2
            THEN pc' = "in_e1" /\ pass' = 1
            ELSE pc' = "finish" /\ pass' = pass
    /\ trace' = Logged(<< <<"cvcv", pass>> >>)
    /\ UNCHANGED <<inputs, aux, method, ncalls, err, engine, ish_ranges, istep, fswap,
                   swap_open, eri_half, di, eris, prev, prev_engine>>

\* ---------------------------------------------------- return and binding
np_sub(a, b) ==
    [shape |-> a.shape, dat |-> [x \in IdxOf(a.shape) |-> a.dat[x] - b.dat[x]]]

\* The tuple returned by trans_e1_incore.
ret_incore(l) ==
    <<np_sub(l.jc_pp, l.kc_pp), np_sub(l.jC_PP, l.kC_PP), l.jC_pp, l.jc_PP,
      l.aapp, l.aaPP, l.AApp, l.AAPP, l.appa, l.apPA, l.APPA,
      l.Iapcv, l.IAPCV, l.apCV, l.APcv, l.Icvcv, l.ICVCV, l.cvCV>>

\* The tuple returned by trans_e1_outcore.
ret_outcore(l) ==
    <<np_sub(l.jc_pp, l.kc_pp), np_sub(l.jC_PP, l.kC_PP), l.jC_pp, l.jc_PP,
      l.aapp, l.aaPP, l.AApp, l.AAPP, l.appa, l.apPA, l.APPA,
      l.Iapcv, l.IAPCV, l.apCV, l.APcv, l.Icvcv, l.ICVCV, l.cvCV>>

\* The unpacking with Iapcv and IAPCV in each other's position.
bind_outcore_swapped(t) ==
    [jkcpp |-> t[1], jkcPP |-> t[2], jC_pp |-> t[3], jc_PP |-> t[4],
     aapp |-> t[5], aaPP |-> t[6], AApp |-> t[7], AAPP |-> t[8],
     appa |-> t[9], apPA |-> t[10], APPA |-> t[11],
     Iapcv |-> t[13], IAPCV |-> t[12], apCV |-> t[14], APcv |-> t[15],
     Icvcv |-> t[16], ICVCV |-> t[17], cvCV |-> t[18]]

\* The attributes _ERIS.__init__ unpacks the tuple of trans_e1_outcore into.
bind_outcore(t) ==
    [jkcpp |-> t[1], jkcPP |-> t[2], jC_pp |-> t[3], jc_PP |-> t[4],
     aapp |-> t[5], aaPP |-> t[6], AApp |-> t[7], AAPP |-> t[8],
     appa |-> t[9], apPA |-> t[10], APPA |-> t[11],
     Iapcv |-> t[12], IAPCV |-> t[13], apCV |-> t[14], APcv |-> t[15],
     Icvcv |-> t[16], ICVCV |-> t[17], cvCV |-> t[18]]

\* The attributes _ERIS.__init__ unpacks the tuple of trans_e1_incore into.
bind_incore(t) ==
    [jkcpp |-> t[1], jkcPP |-> t[2], jC_pp |-> t[3], jc_PP |-> t[4],
     aapp |-> t[5], aaPP |-> t[6], AApp |-> t[7], AAPP |-> t[8],
     appa |-> t[9], apPA |-> t[10], APPA |-> t[11],
     Iapcv |-> t[12], IAPCV |-> t[13], apCV |-> t[14], APcv |-> t[15],
     Icvcv |-> t[16], ICVCV |-> t[17], cvCV |-> t[18]]

\* The engine returns and _ERIS.__init__ binds the 18 attributes.
Finish ==
    /\ pc = "finish"
    /\ eris' = IF engine = "outcore"
               THEN bind_outcore(ret_outcore(loc))
               ELSE bind_incore(ret_incore(loc))
    /\ pc' = "done"
    /\ loc' = NoLocals
    /\ eri_half' = Unbound
    /\ UNCHANGED <<inputs, aux, method, ncalls, err, engine, pass, ish_ranges, istep,
                   fswap, swap_open, drv, di, prev, prev_engine, trace>>

Next ==
    \/ \E m \in Methods : ERIS_init(m)
    \/ CrossCheck
    \/ InE1
    \/ OutSetup
    \/ OutSetupZeroDiv
    \/ OutWrite
    \/ OutWriteMemoryError
    \/ OutClose
    \/ AappIter
    \/ AappReturn
    \/ CvcvIter
    \/ CvcvReturn
    \/ Finish

Spec == Init /\ [][Next]_vars

\* ------------------------------------------------ reference MO integrals
\* ao2mo.restore(1, ...): the AO integrals as a full four-index array.
restore_full(ints, n) ==
    [x \in Idx4(<<n, n, n, n>>) |-> ints[<<Pair(x[1], x[2]), Pair(x[3], x[4])>>]]

\* Index k of the four-index array tab transformed by the MO matrix m:
\* out[.., p, ..] = sum over mu of m[mu, p] * tab[.., mu, ..].
transform_index(tab, m, k, n) ==
    Evaluated([x \in Idx4(<<n, n, n, n>>) |->
                  SumF([mu \in 1 .. n |-> m[<<mu - 1, x[k]>>] * tab[[x EXCEPT ![k] = mu - 1]]],
                       n)])

\* ao2mo.incore.general(eri, (moa, moa, mob, mob)) followed by restore(1, ...):
\* the full MO array (pq|rs), p and q transformed by moa, r and s by mob.
eri_mo(ints, moa, mob, n) ==
    transform_index(
        transform_index(
            transform_index(
                transform_index(restore_full(ints, n), moa, 1, n),
                moa, 2, n),
            mob, 3, n),
        mob, 4, n)

\* eriaa (spins <<1, 1>>), eriab (<<1, 2>>) and eribb (<<2, 2>>) of __main__
\* for the enumerated input with n orbitals, tabulated once.
eri_ref ==
    [k \in (1 .. MaxNmo) \X {<<1, 1>>, <<1, 2>>, <<2, 2>>} |->
        eri_mo(AoInts(k[1]), MoMat(k[2][1], k[1]), MoMat(k[2][2], k[1]), k[1])] @@ <<>>

\* The reference with the core index i in place of j in the last term.
ref_Icvcv_typo(eri, c, i, a, j, b) ==
    2 * eri[<<i, c + a, j, c + b>>]
    - eri[<<i, j, c + b, c + a>>]
    - eri[<<i, c + b, i, c + a>>]

\* Icvcv / ICVCV of __main__ from the same-spin array eri of a channel with
\* c core orbitals.
ref_Icvcv(eri, c, i, a, j, b) ==
    2 * eri[<<i, c + a, j, c + b>>]
    - eri[<<i, j, c + b, c + a>>]
    - eri[<<i, c + b, j, c + a>>]

\* Iapcv / IAPCV of __main__ from the same-spin array eri of a channel with
\* c core orbitals.
ref_Iapcv(eri, c, t, p, i, b) ==
    2 * eri[<<c + t, p, i, c + b>>]
    - eri[<<p, c + b, i, c + t>>]
    - eri[<<p, i, c + b, c + t>>]

\* jkcpp / jkcPP of __main__ from the same-spin array eri.
ref_jkcpp(eri, i, p, q) == eri[<<i, i, p, q>>] - eri[<<i, p, q, i>>]

PairsBefore(s) == SumF([t \in 1 .. Len(ish_ranges) |-> ish_ranges[t][3]], s - 1)

\* C2: when the write loop of a pass has finished (the state in which the
\* first driver starts; the swap store is not written afterwards), load_buf(c) of every
\* occupied column id c is an (nmo, nao_pair) array in which the block of
\* step s occupies the columns from the sum of the pair counts of the steps
\* before s on; the pair counts sum to nao_pair, every column is filled, and
\* the row equals the in-core block erib[c*nmo : c*nmo+nmo] of the same inputs.
C2_LoadBufRows ==
    (engine = "outcore" /\ pc = "aapp" /\ di = 0)
    => LET nao_pair == NPair(nao)
           erib == nr_e1_incore_(ao_ints, hstack(mo[pass], nmo, nocc[pass]),
                                 e1_ijshape(nmo, nocc[pass]), nao)
       IN  /\ PairsBefore(Len(ish_ranges) + 1) = nao_pair
           /\ \A c \in Rng(nocc[pass]) :
                LET row == load_buf_outcore(fswap, ish_ranges, nmo, nao_pair, c)
                IN  /\ row.shape = <<nmo, nao_pair>>
                    /\ Filled(row)
                    /\ \A st \in 1 .. Len(ish_ranges) :
                         \A r \in Rng(nmo) : \A k \in Rng(ish_ranges[st][3]) :
                            row.dat[<<r, PairsBefore(st) + k>>]
                               = fswap[<<st - 1, c>>].dat[<<r, k>>]
                    /\ row = load_buf_incore(erib, nmo, c)

C2_Witness ==
    /\ engine = "outcore" /\ pc = "aapp" /\ di = 0 /\ pass = 1
    /\ Len(ish_ranges) > 1 /\ nocc[1] > 1
    /\ \E k \in DOMAIN fswap : \E x \in DOMAIN fswap[k].dat : fswap[k].dat[x] # 0

\* incore_bytes + 2*nmo^4 bytes > 0.9*max_memory (both sides times 160).
OverBudgetBytes ==
    10 * mem_usage(ncore, ncas, nmo)[1] + 160 * 2 * nmo ^ 4 > 16 * 9 * max_memory

\* incore_bytes + 2*nmo^4*8 bytes > 0.9*max_memory (both sides times 160).
OverBudgetWords ==
    10 * mem_usage(ncore, ncas, nmo)[1] + 160 * 2 * nmo ^ 4 * 8 > 16 * 9 * max_memory

\* C3 (amended): _ERIS selects the out-of-core engine exactly when the method
\* is 'outcore', or incore_bytes + 2*nmo^4 bytes exceeds 0.9*max_memory, or
\* casscf._scf._eri is None; otherwise it selects the in-core engine exactly
\* when the method is 'incore', and raises KeyError for any other method.
C3_Selection ==
    ncalls > 0
    => LET forced == method = "outcore" \/ OverBudgetBytes \/ ~eri_avail
       IN  /\ (engine = "outcore") <=> forced
           /\ (engine = "incore") <=> (~forced /\ method = "incore")
           /\ (engine = "KeyError") <=> (~forced /\ method # "incore")

C3_Witness ==
    /\ pc = "done" /\ engine = "incore"
    /\ OverBudgetWords /\ ~OverBudgetBytes

\* C3 as stated: the threshold term is 2*nmo^4*8 bytes and every case that
\* is not out-of-core is in-core.
C3_AsStated ==
    ncalls > 0
    => LET forced == method = "outcore" \/ OverBudgetWords \/ ~eri_avail
       IN  /\ (engine = "outcore") <=> forced
           /\ ~forced => engine = "incore"

\* C4 (amended): with method 'incore' and casscf._scf._eri None the
\* out-of-core engine runs and no KeyError is raised; KeyError is raised only
\* for a method that is neither 'outcore' nor 'incore' when the memory test
\* passes and the AO integral array exists, and then before any
\* transformation: no engine has run and no bundle field is set.
C4_NoEriFallsBack ==
    /\ (ncalls > 0 /\ method = "incore" /\ ~eri_avail)
       => (engine = "outcore" /\ err # "KeyError")
    /\ err = "KeyError"
       => /\ method \notin {"outcore", "incore"} /\ eri_avail /\ ~OverBudgetBytes
          /\ pc = "raised" /\ engine = "KeyError"
          /\ eris = NoBundle /\ loc = NoLocals
          /\ eri_half = Unbound /\ fswap = <<>> /\ ~swap_open /\ drv = <<>>

C4_Witness ==
    /\ method = "incore" /\ ~eri_avail /\ ~OverBudgetBytes
    /\ pc = "done" /\ engine = "outcore" /\ err = "none"
    /\ eris.aapp # Unbound

\* C4 as stated: method 'incore' without the AO integral array fails before
\* any transformation, with no bundle field set.
C4_AsStated ==
    (ncalls > 0 /\ method = "incore" /\ ~eri_avail)
    => /\ err = "KeyError" /\ pc = "raised"
       /\ eris = NoBundle /\ fswap = <<>> /\ eri_half = Unbound

\* The shapes of the 18 fields with the last-dimension counts nv1 (alpha)
\* and nv2 (beta).
FieldShapes(nv1, nv2) ==
    [jkcpp |-> <<ncore[1], nmo, nmo>>, jkcPP |-> <<ncore[2], nmo, nmo>>,
     jC_pp |-> <<nmo, nmo>>, jc_PP |-> <<nmo, nmo>>,
     aapp |-> <<ncas, ncas, nmo, nmo>>, aaPP |-> <<ncas, ncas, nmo, nmo>>,
     AApp |-> <<ncas, ncas, nmo, nmo>>, AAPP |-> <<ncas, ncas, nmo, nmo>>,
     appa |-> <<ncas, nmo, nmo, ncas>>, apPA |-> <<ncas, nmo, nmo, ncas>>,
     APPA |-> <<ncas, nmo, nmo, ncas>>,
     Iapcv |-> <<ncas, nmo, ncore[1], nv1>>, IAPCV |-> <<ncas, nmo, ncore[2], nv2>>,
     apCV |-> <<ncas, nmo, ncore[2], nv2>>, APcv |-> <<ncas, nmo, ncore[1], nv1>>,
     Icvcv |-> <<ncore[1], nv1, ncore[1], nv1>>,
     ICVCV |-> <<ncore[2], nv2, ncore[2], nv2>>,
     cvCV |-> <<ncore[1], nv1, ncore[2], nv2>>]

\* C5 (amended): for every partition with ncore_i + ncas <= nmo the fields
\* have the listed shapes with the last dimension of the core-virtual blocks
\* equal to the non-core count nmo - ncore of the channel (active orbitals
\* included), and every element of every field is written.
C5_Shapes ==
    pc = "done"
    => \A k \in 1 .. Len(FieldNames) :
          /\ eris[FieldNames[k]].shape
                = FieldShapes(nmo - ncore[1], nmo - ncore[2])[FieldNames[k]]
          /\ Filled(eris[FieldNames[k]])

C5_Witness ==
    /\ pc = "done" /\ ncas > 0 /\ ncore[1] > 0 /\ ncore[2] > 0
    /\ ncore[1] # ncore[2] /\ eris.cvCV.shape = <<ncore[1], nmo - ncore[1],
                                                   ncore[2], nmo - ncore[2]>>

\* C5 as stated: the last dimension is nvirt = nmo - ncore - ncas.
C5_AsStated ==
    pc = "done"
    => \A k \in 1 .. Len(FieldNames) :
          eris[FieldNames[k]].shape
             = FieldShapes(nmo - ncore[1] - ncas, nmo - ncore[2] - ncas)[FieldNames[k]]

\* C6: a partition with ncore = 0 in a spin channel, or with ncas = nmo, is
\* accepted by both engines: the call raises no error of its own (MemoryError
\* of the block evaluation aside) and the blocks Iapcv, IAPCV, apCV, APcv,
\* Icvcv, ICVCV, cvCV of the finished bundle are zero-sized.
C6_BoundaryAccepted ==
    ((ncore[1] = 0 \/ ncore[2] = 0 \/ ncas = nmo) /\ engine \in {"incore", "outcore"})
    => /\ err \in {"none", "MemoryError"}
       /\ pc = "done"
          => \A f \in {"Iapcv", "IAPCV", "apCV", "APcv", "Icvcv", "ICVCV", "cvCV"} :
                SizeOf(eris[f].shape) = 0

\* C7: Icvcv[i,a-c,j,b-c] = 2*M[i,a,j,b] - M[i,j,b,a] - M[i,b,j,a] with M the
\* alpha-alpha MO tensor and c = ncore[0]; ICVCV likewise with the beta-beta
\* tensor and c = ncore[1].
C7_Icvcv ==
    pc = "done"
    => LET eriaa == eri_ref[<<nmo, <<1, 1>>>>]
           eribb == eri_ref[<<nmo, <<2, 2>>>>]
       IN  /\ eris.Icvcv.shape = <<ncore[1], nmo - ncore[1], ncore[1], nmo - ncore[1]>>
           /\ eris.ICVCV.shape = <<ncore[2], nmo - ncore[2], ncore[2], nmo - ncore[2]>>
           /\ Filled(eris.Icvcv) /\ Filled(eris.ICVCV)
           /\ \A x \in Idx4(eris.Icvcv.shape) :
                 eris.Icvcv.dat[x] = ref_Icvcv(eriaa, ncore[1], x[1], x[2], x[3], x[4])
           /\ \A x \in Idx4(eris.ICVCV.shape) :
                 eris.ICVCV.dat[x] = ref_Icvcv(eribb, ncore[2], x[1], x[2], x[3], x[4])

C7_Witness ==
    /\ pc = "done" /\ ncore[1] > 1 /\ ncore[2] > 0
    /\ LET eriaa == eri_ref[<<nmo, <<1, 1>>>>]
       IN  \E x \in DOMAIN eris.Icvcv.dat :
              /\ x[1] # x[3]
              /\ eris.Icvcv.dat[x] # 2 * eriaa[<<x[1], ncore[1] + x[2],
                                                 x[3], ncore[1] + x[4]>>]
    /\ \E x \in DOMAIN eris.ICVCV.dat : eris.ICVCV.dat[x] # 0

\* C8: Iapcv[t,p,i,b-c] = 2*M[c+t,p,i,b] - M[p,b,i,c+t] - M[p,i,b,c+t] with M
\* the alpha-alpha MO tensor and c = ncore[0]; IAPCV likewise for beta; the
\* cross-spin blocks apCV and APcv are plain slices of the alpha-beta tensor.
C8_Iapcv ==
    pc = "done"
    => LET eriaa == eri_ref[<<nmo, <<1, 1>>>>]
           eriab == eri_ref[<<nmo, <<1, 2>>>>]
           eribb == eri_ref[<<nmo, <<2, 2>>>>]
       IN  /\ eris.Iapcv.shape = <<ncas, nmo, ncore[1], nmo - ncore[1]>>
           /\ eris.IAPCV.shape = <<ncas, nmo, ncore[2], nmo - ncore[2]>>
           /\ eris.apCV.shape = <<ncas, nmo, ncore[2], nmo - ncore[2]>>
           /\ eris.APcv.shape = <<ncas, nmo, ncore[1], nmo - ncore[1]>>
           /\ Filled(eris.Iapcv) /\ Filled(eris.IAPCV)
           /\ Filled(eris.apCV) /\ Filled(eris.APcv)
           /\ \A x \in Idx4(eris.Iapcv.shape) :
                 eris.Iapcv.dat[x] = ref_Iapcv(eriaa, ncore[1], x[1], x[2], x[3], x[4])
           /\ \A x \in Idx4(eris.IAPCV.shape) :
                 eris.IAPCV.dat[x] = ref_Iapcv(eribb, ncore[2], x[1], x[2], x[3], x[4])
           /\ \A x \in Idx4(eris.apCV.shape) :
                 eris.apCV.dat[x] = eriab[<<ncore[1] + x[1], x[2], x[3], ncore[2] + x[4]>>]
           /\ \A x \in Idx4(eris.APcv.shape) :
                 eris.APcv.dat[x] = eriab[<<x[3], ncore[1] + x[4], ncore[2] + x[1], x[2]>>]

C8_Witness ==
    /\ pc = "done" /\ ncas > 0 /\ ncore[1] > 0 /\ ncore[2] > 0
    /\ LET eriaa == eri_ref[<<nmo, <<1, 1>>>>]
       IN  \E x \in DOMAIN eris.Iapcv.dat :
              eris.Iapcv.dat[x] # 2 * eriaa[<<ncore[1] + x[1], x[2],
                                               x[3], ncore[1] + x[4]>>]
    /\ \E x \in DOMAIN eris.apCV.dat : eris.apCV.dat[x] # 0
    /\ \E x \in DOMAIN eris.APcv.dat : eris.APcv.dat[x] # 0

\* C9 (amended): Icvcv is symmetric, not antisymmetric, under the
\* simultaneous exchange of its first and third and of its second and fourth
\* indices: Icvcv[i,a,j,b] = Icvcv[j,b,i,a], both for the reference formula
\* of __main__ on the symmetric MO tensor and for the field of the bundle
\* (ICVCV likewise).
C9_IcvcvSymmetric ==
    pc = "done"
    => /\ \A sp \in {1, 2} :
             LET eri == eri_ref[<<nmo, <<sp, sp>>>>]
             IN  \A x \in Idx4(<<ncore[sp], nmo - ncore[sp],
                                 ncore[sp], nmo - ncore[sp]>>) :
                    ref_Icvcv(eri, ncore[sp], x[1], x[2], x[3], x[4])
                       = ref_Icvcv(eri, ncore[sp], x[3], x[4], x[1], x[2])
       /\ Filled(eris.Icvcv) /\ Filled(eris.ICVCV)
       /\ \A x \in Idx4(eris.Icvcv.shape) :
             eris.Icvcv.dat[x] = eris.Icvcv.dat[<<x[3], x[4], x[1], x[2]>>]
       /\ \A x \in Idx4(eris.ICVCV.shape) :
             eris.ICVCV.dat[x] = eris.ICVCV.dat[<<x[3], x[4], x[1], x[2]>>]

C9_Witness ==
    /\ pc = "done" /\ ncore[1] > 1
    /\ LET eriaa == eri_ref[<<nmo, <<1, 1>>>>]
       IN  \E x \in DOMAIN eris.Icvcv.dat :
              /\ x[1] # x[3]
              /\ eris.Icvcv.dat[x] # 0
              /\ ref_Icvcv(eriaa, ncore[1], x[1], x[2], x[3], x[4]) # 0

\* C9 as stated: Icvcv[i,a,j,b] = -Icvcv[j,b,i,a].
C9_AsStated ==
    pc = "done"
    => /\ LET eriaa == eri_ref[<<nmo, <<1, 1>>>>]
          IN  \A x \in Idx4(<<ncore[1], nmo - ncore[1], ncore[1], nmo - ncore[1]>>) :
                 ref_Icvcv(eriaa, ncore[1], x[1], x[2], x[3], x[4])
                    = 0 - ref_Icvcv(eriaa, ncore[1], x[3], x[4], x[1], x[2])
       /\ \A x \in DOMAIN eris.Icvcv.dat :
             eris.Icvcv.dat[x] = 0 - eris.Icvcv.dat[<<x[3], x[4], x[1], x[2]>>]

\* C10: jkcpp[i,p,q] = M[i,i,p,q] - M[i,p,q,i] for every alpha core orbital i
\* (jkcPP likewise for beta); the rows of kc_pp[i] written from cpp (p < ncore)
\* and from vcp (p >= ncore) are disjoint and cover 0..nmo-1, so that every
\* element of kc_pp is written when the driver returns.
C10_jkcpp ==
    /\ \A p \in {1, 2} :
          LET nc == SpinArgs(ncore, p)
          IN  /\ kc_rows_cpp(nc) \cap kc_rows_vcp(nc, nmo) = {}
              /\ kc_rows_cpp(nc) \cup kc_rows_vcp(nc, nmo) = Rng(nmo)
              /\ kc_rows_cpp(nc) = {r \in Rng(nmo) : r < nc[1]}
    /\ pc = "finish"
       => LET eriaa == eri_ref[<<nmo, <<1, 1>>>>]
              eribb == eri_ref[<<nmo, <<2, 2>>>>]
          IN  /\ Filled(loc.kc_pp) /\ Filled(loc.kC_PP)
              /\ Filled(loc.jc_pp) /\ Filled(loc.jC_PP)
              /\ \A x \in Idx3(loc.kc_pp.shape) :
                    loc.kc_pp.dat[x] = eriaa[<<x[1], x[2], x[3], x[1]>>]
              /\ \A x \in Idx3(loc.kC_PP.shape) :
                    loc.kC_PP.dat[x] = eribb[<<x[1], x[2], x[3], x[1]>>]
    /\ pc = "done"
       => LET eriaa == eri_ref[<<nmo, <<1, 1>>>>]
              eribb == eri_ref[<<nmo, <<2, 2>>>>]
          IN  /\ eris.jkcpp.shape = <<ncore[1], nmo, nmo>>
              /\ eris.jkcPP.shape = <<ncore[2], nmo, nmo>>
              /\ Filled(eris.jkcpp) /\ Filled(eris.jkcPP)
              /\ \A x \in Idx3(eris.jkcpp.shape) :
                    eris.jkcpp.dat[x] = ref_jkcpp(eriaa, x[1], x[2], x[3])
              /\ \A x \in Idx3(eris.jkcPP.shape) :
                    eris.jkcPP.dat[x] = ref_jkcpp(eribb, x[1], x[2], x[3])

C10_Witness ==
    /\ pc = "done" /\ ncore[1] > 0 /\ ncore[1] < nmo /\ ncore[2] > 0
    /\ LET eriaa == eri_ref[<<nmo, <<1, 1>>>>]
       IN  /\ \E x \in DOMAIN eris.jkcpp.dat :
                /\ x[2] < ncore[1]
                /\ eris.jkcpp.dat[x] # eriaa[<<x[1], x[1], x[2], x[3]>>]
           /\ \E x \in DOMAIN eris.jkcpp.dat :
                /\ x[2] >= ncore[1]
                /\ eris.jkcpp.dat[x] # eriaa[<<x[1], x[1], x[2], x[3]>>]
    /\ \E x \in DOMAIN eris.jkcPP.dat : eris.jkcPP.dat[x] # 0

\* C11: for every active index i the plain blocks of the active-space driver
\* are slices of the full MO tensors: aapp[i] = Maa[c0+i, c0:nocc0, :, :],
\* appa[i] = Maa[c0+i, :, :, c0:nocc0], aaPP[i] = Mab[c0+i, c0:nocc0, :, :],
\* apPA[i] = Mab[c0+i, :, :, c1:nocc1]; AAPP and APPA are the same slices of
\* Mbb with c1, and AApp[i, j, p, q] = Mab[p, q, c1+i, c1+j].
C11_PlainSlices ==
    pc = "done"
    => LET eriaa == eri_ref[<<nmo, <<1, 1>>>>]
           eriab == eri_ref[<<nmo, <<1, 2>>>>]
           eribb == eri_ref[<<nmo, <<2, 2>>>>]
           c0 == ncore[1]
           c1 == ncore[2]
       IN  /\ \A f \in {"aapp", "aaPP", "AApp", "AAPP"} :
                 eris[f].shape = <<ncas, ncas, nmo, nmo>> /\ Filled(eris[f])
           /\ \A f \in {"appa", "apPA", "APPA"} :
                 eris[f].shape = <<ncas, nmo, nmo, ncas>> /\ Filled(eris[f])
           /\ \A x \in Idx4(<<ncas, ncas, nmo, nmo>>) :
                 /\ eris.aapp.dat[x] = eriaa[<<c0 + x[1], c0 + x[2], x[3], x[4]>>]
                 /\ eris.aaPP.dat[x] = eriab[<<c0 + x[1], c0 + x[2], x[3], x[4]>>]
                 /\ eris.AAPP.dat[x] = eribb[<<c1 + x[1], c1 + x[2], x[3], x[4]>>]
                 /\ eris.AApp.dat[x] = eriab[<<x[3], x[4], c1 + x[1], c1 + x[2]>>]
           /\ \A x \in Idx4(<<ncas, nmo, nmo, ncas>>) :
                 /\ eris.appa.dat[x] = eriaa[<<c0 + x[1], x[2], x[3], c0 + x[4]>>]
                 /\ eris.apPA.dat[x] = eriab[<<c0 + x[1], x[2], x[3], c1 + x[4]>>]
                 /\ eris.APPA.dat[x] = eribb[<<c1 + x[1], x[2], x[3], c1 + x[4]>>]

C11_Witness ==
    /\ pc = "done" /\ ncas > 0 /\ ncore[1] > 0 /\ ncore[2] > 0 /\ ncore[1] # ncore[2]
    /\ \A f \in {"aapp", "aaPP", "AApp", "AAPP", "appa", "apPA", "APPA"} :
          \E x \in DOMAIN eris[f].dat : eris[f].dat[x] # 0
    /\ LET eriab == eri_ref[<<nmo, <<1, 2>>>>]
       IN  \E x \in DOMAIN eris.apPA.dat :
              eris.apPA.dat[x] # eriab[<<ncore[1] + x[1], x[2], x[3], ncore[1] + x[4]>>]

\* jc_PP of __main__ restricted to the first k alpha core orbitals:
\* einsum('iipq->pq', eriab[:k, :k, :, :]).
ref_jc_PP(eriab, k, p, q) == SumF([i \in 1 .. k |-> eriab[<<i - 1, i - 1, p, q>>]], k)

\* jC_pp of __main__ restricted to the first k beta core orbitals:
\* einsum('pqii->pq', eriab[:, :, :k, :k]).
ref_jC_pp(eriab, k, p, q) == SumF([i \in 1 .. k |-> eriab[<<p, q, i - 1, i - 1>>]], k)

\* C12: the cross-spin accumulator of the core-virtual driver is the zero
\* matrix before the first iteration and, after k iterations, the sum of the
\* contributions of the first k primary-spin core orbitals, one each; in the
\* finished bundle jc_PP[P,Q] = sum over alpha core i of Mab[i,i,P,Q] and
\* jC_pp[p,q] = sum over beta core I of Mab[p,q,I,I], the zero matrix when
\* the channel has no core orbital.
C12_Accumulator ==
    LET eriab == eri_ref[<<nmo, <<1, 2>>>>]
    IN  /\ pc = "cvcv"
           => /\ drv.jc_PP.shape = <<nmo, nmo>>
              /\ \A x \in Idx2(<<nmo, nmo>>) :
                    drv.jc_PP.dat[x] = IF pass = 1
                                       THEN ref_jc_PP(eriab, di, x[1], x[2])
                                       ELSE ref_jC_pp(eriab, di, x[1], x[2])
              /\ di = 0 => drv.jc_PP = np_zeros(<<nmo, nmo>>)
        /\ pc = "done"
           => /\ eris.jc_PP.shape = <<nmo, nmo>> /\ eris.jC_pp.shape = <<nmo, nmo>>
              /\ \A x \in Idx2(<<nmo, nmo>>) :
                    /\ eris.jc_PP.dat[x] = ref_jc_PP(eriab, ncore[1], x[1], x[2])
                    /\ eris.jC_pp.dat[x] = ref_jC_pp(eriab, ncore[2], x[1], x[2])
              /\ ncore[1] = 0 => eris.jc_PP = np_zeros(<<nmo, nmo>>)
              /\ ncore[2] = 0 => eris.jC_pp = np_zeros(<<nmo, nmo>>)

C12_Witness ==
    /\ pc = "done" /\ ncore[1] > 1 /\ ncore[2] > 0
    /\ LET eriab == eri_ref[<<nmo, <<1, 2>>>>]
       IN  \E x \in Idx2(<<nmo, nmo>>) :
              /\ eris.jc_PP.dat[x] # 0
              /\ eris.jc_PP.dat[x] # ncore[1] * eriab[<<0, 0, x[1], x[2]>>]
              /\ eris.jC_pp.dat[x] # 0

\* C13 (amended): for every partition with 0 <= ncore_i and ncore_i + ncas
\* <= nmo, _mem_usage returns the pair (incore, outcore) of non-negative
\* numbers expressed in megabytes, not in bytes: outcore is 8 bytes per
\* element divided by 10^6, and incore adds (nmo^4 + 4*ncore_avg*nmo^3)/10^6
\* to it.  The value depends on the arguments only.
C13_MemUsage ==
    ncalls > 0
    => LET u == mem_usage(ncore, ncas, nmo)
           bytes16 == 8 * outcore_words16(ncore, ncas, nmo)
       IN  /\ u[2] >= 0 /\ u[1] >= u[2]
           \* returned * MemScale = (bytes / BytesPerMB) * MemScale, bytes = bytes16 / 16
           /\ 16 * u[2] = (MemScale \div BytesPerMB) * bytes16
           /\ u[1] - u[2] = 16 * nmo ^ 4 + 16 * 2 * (ncore[1] + ncore[2]) * nmo ^ 3
           /\ u[2] > 0

C13_Witness ==
    /\ ncalls > 0 /\ ncas > 0 /\ ncore[1] > 0 /\ ncore[2] > 0 /\ ncore[1] + ncas < nmo
    /\ (ncore[1] + ncore[2]) % 2 = 1
    /\ mem_usage(ncore, ncas, nmo)[1] > mem_usage(ncore, ncas, nmo)[2]

\* C13 as stated: the returned outcore figure is the byte count itself
\* (returned * MemScale = bytes * MemScale, with bytes = bytes16 / 16).
C13_AsStated ==
    ncalls > 0
    => LET u == mem_usage(ncore, ncas, nmo)
           bytes16 == 8 * outcore_words16(ncore, ncas, nmo)
       IN  /\ u[2] >= 0 /\ u[1] >= u[2]
           /\ u[2] % BytesPerMB = 0
           /\ u[2] \div BytesPerMB = bytes16

\* Last element of a non-empty sequence.
Last(q) == q[Len(q)]

\* C14: when the evaluation of a shell-range block raises MemoryError, in
\* either pass and at any step, the warning is logged right after the failed
\* evaluation and the error leaves the call: the call is over with that
\* error, the failed range was not written, no attribute of the bundle is
\* bound on the object (not even those the first pass has computed), and no
\* further step (no later shell range, no driver, no binding) is taken.
C14_MemoryErrorPropagates ==
    /\ [](err = "MemoryError"
          => /\ pc = "raised" /\ engine = "outcore"
             /\ Len(trace) >= 2
             /\ Last(trace) = <<"warn", pass, istep>>
             /\ trace[Len(trace) - 1] = <<"eval", pass, istep>>
             /\ <<istep, 0>> \notin DOMAIN fswap
             /\ drv = <<>>
             /\ eris = NoBundle)
    /\ [][err # "MemoryError"]_vars

C14_Witness ==
    /\ err = "MemoryError" /\ pc = "raised" /\ pass = 1 /\ istep > 0
    /\ ncas > 0 /\ ncore[2] > 0
    /\ Filled(loc.AAPP) /\ Filled(loc.ICVCV)
    /\ \E x \in DOMAIN loc.AAPP.dat : loc.AAPP.dat[x] # 0
    /\ eris = NoBundle

\* C15: when the out-of-core engine ends with an error after the swap store
\* of the pass was created, that store has been closed: no store is open in
\* the state the error leaves behind, and the last event of the store is its
\* close.
C15_SwapDiscarded ==
    (pc = "raised" /\ engine = "outcore"
       /\ \E k \in 1 .. Len(trace) : trace[k] = <<"open", pass>>)
    => /\ ~swap_open
       /\ \E k \in 1 .. Len(trace) : trace[k] = <<"close", pass>>

\* Positions of the event ev in the trace.
Pos(ev) == {k \in 1 .. Len(trace) : trace[k] = ev}

\* Positions of the events of the given kind of pass p.
PosKind(kind, p) == {k \in 1 .. Len(trace) : trace[k][1] = kind /\ trace[k][2] = p}

\* Number of shell ranges of pass p of the current inputs.
NumRanges(p) ==
    Len(info_sh_ranges(nao, e1_buflen_of(max_memory, nocc[p] * nmo, NPair(nao))))

\* C16: within one out-of-core call every shell range of every pass is
\* submitted to the evaluator at most once; on success each range of each
\* pass exactly once and nothing else; after a failure the failed range has
\* been submitted once, the shell ranges are those computed at set-up, and
\* no step follows any error.
C16_NoRetry ==
    /\ [](engine = "outcore"
          => /\ \A k \in 1 .. Len(trace) :
                   trace[k][1] = "eval" => Cardinality(Pos(trace[k])) = 1
             /\ pc = "done"
                => \A p \in {1, 2} :
                      {trace[k][3] : k \in PosKind("eval", p)} = Rng(NumRanges(p))
             /\ err = "MemoryError"
                => /\ Cardinality(Pos(<<"eval", pass, istep>>)) = 1
                   /\ Len(ish_ranges) = NumRanges(pass)
                   /\ {trace[k][3] : k \in PosKind("eval", pass)} = 0 .. istep)
    /\ [][err = "none"]_vars

C16_Witness ==
    /\ engine = "outcore" /\ err = "MemoryError" /\ pass = 1 /\ istep > 0
    /\ NumRanges(2) > 1
    /\ Cardinality(PosKind("eval", 2)) = NumRanges(2)
    /\ Cardinality(PosKind("eval", 1)) = istep + 1

\* C17: in each pass the swap-store writes happen in increasing step order,
\* every step is written before the first read of the pass (the drivers only
\* run once the write loop has finished), and no write of the pass follows a
\* read of the pass.
C17_WriteThenRead ==
    engine = "outcore"
    => /\ \A p \in {1, 2} :
             /\ \A i, j \in PosKind("write", p) : i < j => trace[i][3] < trace[j][3]
             /\ \A j \in PosKind("read", p) :
                   /\ \A i \in PosKind("write", p) : i < j
                   /\ {trace[i][3] : i \in PosKind("write", p)} = Rng(NumRanges(p))
       /\ pc \in {"aapp", "cvcv", "close"}
          => /\ istep = Len(ish_ranges)
             /\ \A k \in Rng(Len(ish_ranges)) : \A c \in Rng(nocc[pass]) :
                   <<k, c>> \in DOMAIN fswap

C17_Witness ==
    /\ engine = "outcore" /\ pc = "done"
    /\ NumRanges(1) > 1 /\ NumRanges(2) > 1
    /\ Cardinality(PosKind("read", 1)) > 2 /\ Cardinality(PosKind("read", 2)) > 2

\* The swap stores open after the first k events of the trace.
OpenAfter(k) ==
    {p \in {1, 2} :
        /\ \E i \in 1 .. k : trace[i] = <<"open", p>>
        /\ \A i \in 1 .. k : trace[i] # <<"close", p>>}

\* C18: on a successful out-of-core call the store of a pass is closed after
\* both drivers of the pass have returned, it is not read after its close,
\* the store of the first pass is closed before the store of the second is
\* created, at most one store is open at any time, and both stores are
\* closed when the call returns.
C18_CloseOrder ==
    (engine = "outcore" /\ err = "none")
    => /\ \A k \in 0 .. Len(trace) : Cardinality(OpenAfter(k)) <= 1
       /\ swap_open <=> OpenAfter(Len(trace)) # {}
       /\ \A p \in {1, 2} :
             \A c \in Pos(<<"close", p>>) :
                /\ \E i \in Pos(<<"aapp", p>>) : i < c
                /\ \E i \in Pos(<<"cvcv", p>>) : i < c
                /\ \A i \in PosKind("read", p) : i < c
                /\ Cardinality(Pos(<<"close", p>>)) = 1
       /\ \A o \in Pos(<<"open", 1>>) : \E c \in Pos(<<"close", 2>>) : c < o
       /\ pc \in {"finish", "done"}
          => /\ ~swap_open
             /\ Pos(<<"close", 1>>) # {} /\ Pos(<<"close", 2>>) # {}

C18_Witness ==
    /\ engine = "outcore" /\ pc = "done" /\ err = "none" /\ ~swap_open
    /\ ncas > 0 /\ ncore[1] > 0 /\ ncore[2] > 0
    /\ PosKind("read", 1) # {} /\ PosKind("read", 2) # {}
    /\ Pos(<<"close", 1>>) # {} /\ Pos(<<"close", 2>>) # {}

\* Position of the return of the given driver in pass p (0: not returned yet).
ReturnPos(driver, p) ==
    IF Pos(<<driver, p>>) = {} THEN 0 ELSE CHOOSE k \in Pos(<<driver, p>>) : TRUE

\* The n events that end right before position e of the trace.
EventsBefore(e, n) == [k \in 1 .. n |-> trace[e - n + k - 1]]

\* The load_buf calls of the active-space driver of pass p, in call order:
\* the reads of the pass before the return of that driver.
AappLoads(p) ==
    LET e == ReturnPos("aapp", p)
    IN  EventsBefore(e, Cardinality({k \in PosKind("read", p) : k < e}))

\* The load_buf calls of the core-virtual driver of pass p: the reads of the
\* pass between the returns of the two drivers.
CvcvLoads(p) ==
    LET a == ReturnPos("aapp", p)
        e == ReturnPos("cvcv", p)
    IN  EventsBefore(e, Cardinality({k \in PosKind("read", p) : a < k /\ k < e}))

\* C21: the loop of the active-space driver runs ncas times and iteration i
\* loads the one row ncore+i, twice (once for each spin of the second
\* half transformation): one call makes 2*ncas row loads, the column ids
\* ncore+0 .. ncore+ncas-1 in increasing order, each exactly twice in a row.
\* The core-virtual driver makes exactly ncore row loads, the column ids
\* 0 .. ncore-1 in increasing order, each once; ncore is that of the primary
\* spin.  While a driver runs, its loads so far are those of its first di
\* iterations.
C21_RowLoads ==
    /\ \A p \in {1, 2} :
          LET nc == SpinArgs(ncore, p)
          IN  Pos(<<"cvcv", p>>) # {}
              => /\ Cardinality(Pos(<<"aapp", p>>)) = 1
                 /\ Cardinality(Pos(<<"cvcv", p>>)) = 1
                 /\ AappLoads(p) = [k \in 1 .. 2 * ncas |->
                                       <<"read", p, nc[1] + ((k - 1) \div 2)>>]
                 /\ CvcvLoads(p) = [k \in 1 .. nc[1] |-> <<"read", p, k - 1>>]
                 /\ Cardinality(PosKind("read", p)) = 2 * ncas + nc[1]
    /\ pc = "aapp" => Cardinality(PosKind("read", pass)) = 2 * di
    /\ pc = "cvcv" => Cardinality(PosKind("read", pass)) = 2 * ncas + di

C21_Witness ==
    /\ pc = "done" /\ ncas = 2 /\ ncore[1] >= 1 /\ ncore[2] >= 1
    /\ Len(AappLoads(1)) = 4 /\ Len(AappLoads(2)) = 4
    /\ Len(CvcvLoads(1)) = ncore[1] /\ Len(CvcvLoads(2)) = ncore[2]
    /\ \E e \in {"incore", "outcore"} : engine = e

\* C21 as stated: one call of the active-space driver makes exactly ncas row
\* loads, each column id once.
C21_AsStated ==
    \A p \in {1, 2} :
        Pos(<<"aapp", p>>) # {}
        => /\ Len(AappLoads(p)) = ncas
           /\ \A c \in Rng(ncas) :
                 Cardinality(Pos(<<"read", p, SpinArgs(ncore, p)[1] + c>>)) = 1

\* The returns of the drivers of the current call, in order.
DriverReturns == SelectSeq(trace, LAMBDA e : e[1] \in {"aapp", "cvcv"})

\* The order in which a successful engine call runs its four driver calls.
DriverOrder == << <<"aapp", 2>>, <<"cvcv", 2>>, <<"aapp", 1>>, <<"cvcv", 1>> >>

\* The half-transformed array built from the coefficient matrix of spin p.
HalfRef(p) ==
    nr_e1_incore_(ao_ints, hstack(mo[p], nmo, nocc[p]), e1_ijshape(nmo, nocc[p]), nao)

\* C22: in both engines a successful call runs each driver exactly twice, in
\* the order active-space (beta primary), core-virtual (beta primary),
\* active-space (alpha primary), core-virtual (alpha primary), and at any
\* moment the drivers that have returned are a prefix of that order; every
\* load of the beta pass precedes every load of the alpha pass; and while a
\* driver of a pass runs, the data its row loader reads is the half transform
\* built from the coefficient matrix of the primary spin of that pass: the
\* in-core array is that of the pass, the swap store holds the blocks of the
\* pass and no others, and every occupied column id loads the row of that
\* half transform.
C22_TwoPasses ==
    /\ Len(DriverReturns) <= 4
    /\ DriverReturns = SubSeq(DriverOrder, 1, Len(DriverReturns))
    /\ pc \in {"finish", "done"} => DriverReturns = DriverOrder
    /\ \A i, j \in 1 .. Len(trace) :
          (trace[i][1] = "read" /\ trace[j][1] = "read"
             /\ trace[i][2] = 2 /\ trace[j][2] = 1) => i < j
    /\ pc \in {"aapp", "cvcv"}
       => /\ engine = "incore" => eri_half = HalfRef(pass)
          /\ engine = "outcore"
             => DOMAIN fswap = Rng(Len(ish_ranges)) \X Rng(nocc[pass])
          /\ \A c \in Rng(nocc[pass]) :
                fload(c) = Rows(HalfRef(pass), c * nmo, c * nmo + nmo)

C22_Witness ==
    /\ pc = "done" /\ engine = "outcore" /\ nmo = MaxNmo
    /\ ncas > 0 /\ ncore[1] > 0 /\ ncore[2] > 0
    /\ DriverReturns = DriverOrder
    /\ PosKind("read", 1) # {} /\ PosKind("read", 2) # {}
    /\ \E c \in Rng(nocc[1]) \cap Rng(nocc[2]) :
          Rows(HalfRef(1), c * nmo, c * nmo + nmo) # Rows(HalfRef(2), c * nmo, c * nmo + nmo)

\* C23: for every partition and each spin channel the buffer sizing of the
\* out-of-core engine succeeds: no pass ends in the division error of
\* mem_words // nij_pair, and once a pass is set up its block length, computed
\* from the nocc of its own channel, is at most nao_pair and its product with
\* nij_pair = nocc*nmo is at most the word budget of the cache.
C23_BufLen ==
    engine = "outcore"
    => /\ err # "ZeroDivisionError"
       /\ pc \in {"out_write", "aapp", "cvcv", "close"}
          => LET nij_pair == nocc[pass] * nmo
                 e1_buflen == e1_buflen_of(max_memory, nij_pair, NPair(nao))
             IN  /\ e1_buflen <= NPair(nao)
                 /\ e1_buflen * nij_pair <= memory_words(max_memory)
                 /\ ish_ranges = info_sh_ranges(nao, e1_buflen)

\* The least memory requirement of the module header, in words, for a
\* partition with c core orbitals in both spins.
least_words(c, ncas_, nmo_) ==
    c * c * (nmo_ - c) * (nmo_ - c) + 2 * ncas_ * ncas_ * nmo_ * nmo_ + nmo_ * nmo_ * nmo_

\* Number of units of the model's estimate in one word of 8 bytes.
UnitsPerWord == (MemScale \div BytesPerMB) * 8

\* C24: for every partition with the same core count in both spins, the
\* least memory requirement of the module header (in words) is at most the
\* out-of-core estimate of _mem_usage converted to words, which is at most
\* the in-core estimate.
C24_OverEstimate ==
    (ncalls > 0 /\ ncore[1] = ncore[2])
    => LET u == mem_usage(ncore, ncas, nmo)
       IN  /\ UnitsPerWord * least_words(ncore[1], ncas, nmo) <= u[2]
           /\ u[2] <= u[1]

C24_Witness ==
    /\ ncalls > 0 /\ ncore[1] = ncore[2] /\ ncore[1] > 0 /\ ncas > 0
    /\ ncore[1] + ncas < nmo
    /\ LET u == mem_usage(ncore, ncas, nmo)
       IN  /\ 0 < least_words(ncore[1], ncas, nmo)
           /\ UnitsPerWord * least_words(ncore[1], ncas, nmo) < u[2]
           /\ u[2] < u[1]

\* A step taken while a driver runs leaves the stored half transform alone.
StoreKept ==
    pc \in {"aapp", "cvcv"}
    => /\ eri_half' = eri_half
       /\ fswap' = fswap
       /\ ish_ranges' = ish_ranges
       /\ \A c \in Rng(nocc[pass]) : fload(c)' = fload(c)

\* A core-virtual iteration adds the transform of the row buf[i] as loaded.
ReadBeforeOverwrite ==
    (pc = "cvcv" /\ di' = di + 1)
    => LET nc == SpinArgs(ncore, pass)
           molk2 == hstack(SpinArgs(mo, pass)[2], nmo, nc[2] + ncas)
           tmp == nr_e2_(Rows(fload(di), di, di + 1), molk2, <<0, nmo, 0, nmo>>, nmo)
       IN  \A x \in Idx2(<<nmo, nmo>>) :
              drv'.jc_PP.dat[x] = drv.jc_PP.dat[x] + NPdunpack_tril(tmp, 0, x[1], x[2])

\* C25: while the drivers of a pass run, no step changes the stored half
\* transform: the in-core array and the swap store (and its shell ranges)
\* are what they were, although every core-virtual iteration overwrites the
\* first ncore rows of the buffer it loaded, so that loading any occupied
\* column id again returns the same row as before; and within a
\* core-virtual iteration the row buf[i] that is added to the cross-spin
\* accumulator is the row as loaded, read before the overwrite.
C25_LoadsLeaveStore ==
    /\ [][StoreKept]_vars
    /\ [][ReadBeforeOverwrite]_vars

C25_Witness ==
    /\ engine = "incore" /\ pc = "cvcv" /\ di >= 1 /\ di = SpinArgs(ncore, pass)[1]
    /\ LET buf == fload(0)
           bufw == e2_inplace(buf, hstack(mo[pass], nmo, nocc[pass]), di, nmo)
       IN  /\ \E x \in DOMAIN buf.dat : bufw.dat[x] # buf.dat[x]
           /\ store_after_write_view(eri_half, nmo, 0, bufw) # eri_half
           /\ buf = Rows(HalfRef(pass), 0, nmo)

\* C26: in the out-of-core engine, for each spin channel, the write loop
\* writes the keys (step, column) step by step: before step istep the store
\* holds exactly the keys of the steps 0 .. istep-1 with the columns
\* 0 .. nocc-1 (so the keys of a step are new when it writes them), each
\* step is written once, and when the drivers run the store holds exactly
\* the nsteps*nocc keys.  Every load of a driver asks for a column id in
\* 0 .. nocc-1 of the channel of the pass, and every key (step, column id) it
\* reads has been written earlier in the pass.
C26_KeysOnce ==
    engine = "outcore"
    => /\ \A k \in 1 .. Len(trace) :
             trace[k][1] = "write" => Cardinality(Pos(trace[k])) = 1
       /\ pc = "out_write" => DOMAIN fswap = Rng(istep) \X Rng(nocc[pass])
       /\ pc \in {"aapp", "cvcv", "close"}
          => /\ DOMAIN fswap = Rng(Len(ish_ranges)) \X Rng(nocc[pass])
             /\ Cardinality(DOMAIN fswap) = Len(ish_ranges) * nocc[pass]
       /\ \A p \in {1, 2} : \A j \in PosKind("read", p) :
             /\ trace[j][3] \in Rng(nocc[p])
             /\ \A s \in Rng(NumRanges(p)) : \E i \in Pos(<<"write", p, s>>) : i < j
             /\ p = pass => \A s \in Rng(Len(ish_ranges)) : <<s, trace[j][3]>> \in DOMAIN fswap

C26_Witness ==
    /\ engine = "outcore" /\ pc = "done"
    /\ ncas > 0 /\ ncore[1] > 0 /\ ncore[2] > 0
    /\ NumRanges(1) > 1 /\ NumRanges(2) > 1
    /\ Cardinality(DOMAIN fswap) = NumRanges(1) * nocc[1]
    /\ {trace[j][3] : j \in PosKind("read", 1)} = Rng(nocc[1])
    /\ {trace[j][3] : j \in PosKind("read", 2)} = Rng(nocc[2])

\* ============================================================ pack / unpack
\* The integral transformation is not running.
EngineOff ==
    /\ nmo = 1 /\ nao = 1 /\ ncas = 0 /\ ncore = <<0, 0>>
    /\ mo = <<MoMat(1, 1), MoMat(2, 1)>>
    /\ ao_ints = AoInts(1)
    /\ eri_avail = TRUE
    /\ max_memory = 60
    /\ method = "none" /\ ncalls = 0 /\ pc = "idle" /\ err = "none" /\ engine = "none"
    /\ pass = 2 /\ ish_ranges = <<>> /\ istep = 0 /\ fswap = <<>> /\ swap_open = FALSE
    /\ eri_half = Unbound /\ drv = <<>> /\ di = 0 /\ loc = NoLocals
    /\ eris = NoBundle /\ prev = NoBundle /\ prev_engine = "none" /\ trace = <<>>

\* Values of the matrix elements of the enumerated matrices.
TrilVals == {-1, 0, 1}

\* The packed lower triangle of the matrix m, as one row of a packed buffer:
\* element c is m[k, l] with (k, l) the c-th pair of the lower triangle in
\* row-major order (the layout nr_e2_ writes for identical k and l windows).
pack_tril(m, n) ==
    [shape |-> <<1, NPair(n)>>,
     dat |-> [x \in Idx2(<<1, NPair(n)>>) |-> m[<<PairRow(x[2]), PairCol(x[2])>>]]]

\* The last argument ctypes.c_int(1) of every funpack call of the drivers.
funpack_hermi == 1

\* The unpacking that leaves the upper triangle unwritten whatever the mode.
funpack_lower(n, row, hermi) ==
    [x \in {y \in Rng(n) \X Rng(n) : y[1] >= y[2]} |-> NPdunpack_tril(row, 0, x[1], x[2])]

\* funpack(c_nmo, buf[j], ppp[j], hermi): the lower triangle is filled from
\* the packed row; the upper triangle is filled by symmetry for hermi = 1
\* and is left unwritten for hermi = 0.
funpack(n, row, hermi) ==
    [x \in {y \in Rng(n) \X Rng(n) : y[1] >= y[2] \/ hermi = 1} |->
        NPdunpack_tril(row, 0, x[1], x[2])]

\* The unordered index pairs of an n x n matrix.
IndexPairs(n) == {{k, l} : k \in Rng(n), l \in Rng(n)}

InitTril ==
    /\ EngineOff
    /\ CellOff
    /\ SerOff /\ EnvOff /\ JkOff
    /\ c_nmo \in 1 .. MaxNmo
    /\ \E vals \in [IndexPairs(c_nmo) -> TrilVals], skew \in BOOLEAN :
          mat_in = [x \in Rng(c_nmo) \X Rng(c_nmo) |->
                       vals[{x[1], x[2]}] + (IF skew /\ x[1] < x[2] THEN 1 ELSE 0)]
    /\ tril = <<>>
    /\ mat = <<>>
    /\ tril_pc = "mat"

\* The matrix is packed to its lower triangle.
TrilPack ==
    /\ tril_pc = "mat"
    /\ tril' = pack_tril(mat_in, c_nmo)
    /\ tril_pc' = "packed"
    /\ UNCHANGED <<engine_vars, cell_vars, call_vars, c_nmo, mat_in, mat>>

\* The packed row is unpacked as the drivers do.
TrilUnpack ==
    /\ tril_pc = "packed"
    /\ mat' = funpack(c_nmo, tril, funpack_hermi)
    /\ tril_pc' = "unpacked"
    /\ UNCHANGED <<engine_vars, cell_vars, call_vars, c_nmo, mat_in, tril>>

NextTril ==
    \/ TrilPack
    \/ TrilUnpack

SpecTril == InitTril /\ [][NextTril]_vars

IsSymmetric(m, n) == \A k, l \in Rng(n) : m[<<k, l>>] = m[<<l, k>>]

\* C19: packing a symmetric nmo x nmo matrix to its lower triangle and
\* unpacking the packed row with the unpacker in the mode the drivers use
\* gives back the original matrix, element for element, for every symmetric
\* matrix; the packed row has nmo*(nmo+1)/2 elements.
C19_PackUnpack ==
    (tril_pc = "unpacked" /\ IsSymmetric(mat_in, c_nmo))
    => /\ DOMAIN tril.dat = Idx2(<<1, NPair(c_nmo)>>)
       /\ mat = mat_in

C19_Witness ==
    /\ tril_pc = "unpacked" /\ c_nmo >= 3 /\ IsSymmetric(mat_in, c_nmo)
    /\ mat_in[<<1, 0>>] # mat_in[<<2, 0>>] /\ mat_in[<<2, 0>>] # mat_in[<<2, 1>>]
    /\ mat_in[<<1, 0>>] # mat_in[<<2, 1>>] /\ mat_in[<<0, 0>>] # mat_in[<<1, 1>>]
    /\ mat = mat_in

\* ===================================================== pbc/gto/cell.py
\* Largest number of atoms of an enumerated .ecp / .pseudo dict.
MaxAtoms == 2

AtomSymbols == <<"H", "O", "C", "N", "F">>

Atoms == {AtomSymbols[k] : k \in 1 .. MaxAtoms}

\* Python values: None, a str (its characters), a dict from atoms to values,
\* and an explicit table (a value that is not a string).
PyNone == [t |-> "None", v |-> <<>>]

PyStr(name) == [t |-> "str", v |-> name]

PyDict(f) == [t |-> "dict", v |-> f]

PyTable == [t |-> "table", v |-> <<>>]

\* The names of the enumerated inputs: a pseudopotential keyword in its
\* plain spelling and spelled 'GT-h', an ECP keyword spelled 'L_an l', and a
\* name that is no keyword.
NameGth == <<"g", "t", "h">>

NameGthSpelled == <<"G", "T", "-", "h">>

NameLanlSpelled == <<"L", "_", "a", "n", " ", "l">>

NameOther == <<"x", "y">>

\* pyscf.pbc.gto.pseudo.ALIAS and pyscf.gto.basis.ALIAS: the keys are the
\* converted spellings of the keywords.
pseudo_ALIAS == {<<"g", "t", "h">>}

MOLE_ALIAS == {<<"l", "a", "n", "l">>}

\* str.lower on one character.
lower(c) ==
    CASE c = "G" -> "g"
      [] c = "T" -> "t"
      [] c = "L" -> "l"
      [] OTHER -> c

RECURSIVE remove_chars(_, _)
remove_chars(name, ch) ==
    IF name = <<>>
    THEN <<>>
    ELSE IF Head(name) = ch
         THEN remove_chars(Tail(name), ch)
         ELSE <<Head(name)>> \o remove_chars(Tail(name), ch)

\* convert without the lower-casing.
convert_nolower(name) == remove_chars(remove_chars(remove_chars(name, " "), "-"), "_")

\* convert(name): name.lower().replace(' ', '').replace('-', '').replace('_', '')
convert(name) ==
    remove_chars(remove_chars(remove_chars([k \in DOMAIN name |-> lower(name[k])], " "),
                              "-"), "_")

isinstance_str(x) == x.t = "str"

\* The truth value of a Python object in an if statement.
truth(x) ==
    CASE x.t = "str" -> x.v # <<>>
      [] x.t = "dict" -> DOMAIN x.v # {}
      [] x.t = "None" -> FALSE
      [] OTHER -> TRUE

\* The dict f restricted to the keys in ks.
restrict(f, ks) == [a \in ks |-> f[a]]

\* The atoms of the dict d whose value is a string naming a keyword of alias.
as_other_keys(d, alias) ==
    {a \in DOMAIN d.v : isinstance_str(d.v[a]) /\ convert(d.v[a].v) \in alias}

\* classify(ecp, pp_alias) of classify_ecp_pseudo: the pair (left, as_other).
classify(x, alias) ==
    CASE isinstance_str(x) ->
            IF convert(x.v) \in alias THEN <<PyDict(<<>>), PyStr(x.v)>> ELSE <<x, PyDict(<<>>)>>
      [] x.t = "dict" ->
            LET moved == as_other_keys(x, alias)
            IN  IF moved # {}
                THEN <<PyDict(restrict(x.v, DOMAIN x.v \ moved)), PyDict(restrict(x.v, moved))>>
                ELSE <<x, PyDict(<<>>)>>
      [] OTHER -> <<x, PyDict(<<>>)>>

\* d.update(other) on dicts: the entries of other replace those of d.
dict_update(d, other) ==
    PyDict([a \in DOMAIN d.v \cup DOMAIN other.v |->
              IF a \in DOMAIN other.v THEN other.v[a] ELSE d.v[a]])

\* The misplaced entries are merged into the destination.
takes_misplaced(left, as_other) == truth(as_other) /\ ~isinstance_str(left)

\* as_other.keys() in the arguments of logger.info raises for a str.
keys_raises(left, as_other) == takes_misplaced(left, as_other) /\ as_other.t # "dict"

\* ecp = ecp_left + pp_as_ecp (and pp = pp_left + ecp_as_pp): the value bound
\* when as_other.keys() does not raise.
merged(left, as_other) ==
    IF takes_misplaced(left, as_other)
    THEN IF truth(left) THEN dict_update(as_other, left) ELSE as_other
    ELSE left

\* The messages of the two logger.info calls of a returning call.
info_of(ecp_left, pp_as_ecp, pp_left, ecp_as_pp) ==
    (IF takes_misplaced(ecp_left, pp_as_ecp)
     THEN << <<"found in .ecp", DOMAIN pp_as_ecp.v>> >> ELSE <<>>)
    \o (IF takes_misplaced(pp_left, ecp_as_pp)
        THEN << <<"found in PBC .pseudo", DOMAIN ecp_as_pp.v>> >> ELSE <<>>)

\* classify_ecp_pseudo(cell, ecp, pp) raises AttributeError.
classify_raises(ecp, pp) ==
    LET e == classify(ecp, pseudo_ALIAS)
        q == classify(pp, MOLE_ALIAS)
    IN  keys_raises(e[1], q[2]) \/ keys_raises(q[1], e[2])

\* classify_ecp_pseudo(cell, ecp, pp): the returned pair (ecp, pp).
classify_ecp_pseudo(ecp, pp) ==
    LET e == classify(ecp, pseudo_ALIAS)
        q == classify(pp, MOLE_ALIAS)
    IN  <<merged(e[1], q[2]), merged(q[1], e[2])>>

\* The values of a dict entry and the values of the attributes .ecp, .pseudo.
EntryValues == {PyStr(NameGthSpelled), PyStr(NameLanlSpelled), PyStr(NameOther), PyTable}

Dicts == UNION {[ks -> EntryValues] : ks \in SUBSET Atoms}

AttrValues ==
    {PyNone, PyStr(NameGth), PyStr(NameGthSpelled), PyStr(NameLanlSpelled), PyStr(NameOther)}
    \cup {PyDict(f) : f \in Dicts}

InitCell ==
    /\ EngineOff
    /\ TrilOff
    /\ SerOff /\ EnvOff /\ JkOff
    /\ ecp0 \in AttrValues
    /\ pp0 \in AttrValues
    /\ self_ecp = ecp0
    /\ self_pseudo = pp0
    /\ cell_pc = "set"
    /\ cell_err = "none"
    /\ cell_info = <<>>

\* Cell.build: self.ecp, self.pseudo = classify_ecp_pseudo(self, self.ecp, self.pseudo)
ClassifyReturns ==
    /\ cell_pc = "set"
    /\ ~classify_raises(self_ecp, self_pseudo)
    /\ self_ecp' = classify_ecp_pseudo(self_ecp, self_pseudo)[1]
    /\ self_pseudo' = classify_ecp_pseudo(self_ecp, self_pseudo)[2]
    /\ cell_info' = LET e == classify(self_ecp, pseudo_ALIAS)
                        q == classify(self_pseudo, MOLE_ALIAS)
                    IN  info_of(e[1], q[2], q[1], e[2])
    /\ cell_pc' = "classified"
    /\ UNCHANGED <<engine_vars, tril_vars, call_vars, ecp0, pp0, cell_err>>

\* The call raises: the attributes keep their values.
ClassifyRaises ==
    /\ cell_pc = "set"
    /\ classify_raises(self_ecp, self_pseudo)
    /\ cell_err' = "AttributeError"
    /\ cell_pc' = "raised"
    /\ UNCHANGED <<engine_vars, tril_vars, call_vars, ecp0, pp0, self_ecp, self_pseudo, cell_info>>

NextCell ==
    \/ ClassifyReturns
    \/ ClassifyRaises

SpecCell == InitCell /\ [][NextCell]_vars

\* The enumerated spellings that name a pseudopotential keyword, and those
\* that name an ECP keyword.
PpSpellings == {NameGth, NameGthSpelled}

EcpSpellings == {NameLanlSpelled}

\* The atoms of the dict d whose value is a string with one of the spellings.
Misplaced(d, spellings) ==
    {a \in DOMAIN d.v : d.v[a].t = "str" /\ d.v[a].v \in spellings}

\* The result of merging the misplaced entries of src (spellings alias_src)
\* into dst (whose own misplaced entries, spellings alias_dst, have left).
MergedDict(res, dst, alias_dst, src, alias_src) ==
    LET keep == DOMAIN dst.v \ Misplaced(dst, alias_dst)
        moved == Misplaced(src, alias_src)
    IN  /\ res.t = "dict"
        /\ DOMAIN res.v = keep \cup moved
        /\ \A a \in keep : res.v[a] = dst.v[a]
        /\ \A a \in moved \ keep : res.v[a] = src.v[a]

C28_NeverRaises == cell_pc # "raised" /\ cell_err = "none"

\* ------------------------------------------------------- dumps / loads
\* repr(x): a str holding the literal of x (never x itself: the repr of a
\* str is that str in quotes).
py_repr(x) == [t |-> "str", v |-> <<"repr">>, of |-> x]

\* eval(s) of a str holding a literal: the value the literal denotes.
py_eval(s) == s.of

\* json.dumps of a dict of JSON-serializable values, and json.loads of the
\* document: the dict comes back with its str values unchanged.
json_dumps(dic) == [t |-> "json", v |-> dic]

json_loads(doc) == doc.v

\* dumps(cell): the four attributes are replaced by their repr before the
\* dict is serialized.
dumps(cell) ==
    json_dumps([cell EXCEPT !.atom = py_repr(cell.atom),
                            !.basis = py_repr(cell.basis),
                            !.pseudo = py_repr(cell.pseudo),
                            !.ecp = py_repr(cell.ecp)])

\* loads(cellstr): cell.__dict__.update(celldic), then the four assignments
\* of lines 218-221 in order; the last one assigns eval(cell.ecp) to
\* cell.pseudo and leaves cell.ecp as it was loaded.
loads(cellstr) ==
    LET c0 == json_loads(cellstr)
        c1 == [c0 EXCEPT !.atom = py_eval(c0.atom)]
        c2 == [c1 EXCEPT !.basis = py_eval(c1.basis)]
        c3 == [c2 EXCEPT !.pseudo = py_eval(c2.pseudo)]
        c4 == [c3 EXCEPT !.pseudo = py_eval(c3.ecp)]
    IN  c4

\* The attribute values of the serialized cells.
SerAtoms == {PyStr(<<"H">>), PyTable}

SerBases == {PyStr(NameGth), PyDict([a \in Atoms |-> PyStr(NameGth)])}

SerPotentials ==
    {PyNone, PyStr(NameGth), PyStr(NameLanlSpelled)}
    \cup {PyDict(f) : f \in UNION {[ks -> {PyStr(NameGthSpelled), PyTable}] : ks \in SUBSET Atoms}}

InitSer ==
    /\ EngineOff
    /\ TrilOff
    /\ CellOff
    /\ EnvOff /\ JkOff
    /\ \E a \in SerAtoms, b \in SerBases, q \in SerPotentials, e \in SerPotentials :
          ser = [pc |-> "cell", cell |-> [atom |-> a, basis |-> b, pseudo |-> q, ecp |-> e]]

\* cellstr = dumps(cell)
Dumps ==
    /\ ser.pc = "cell"
    /\ ser' = [pc |-> "dumped", cell |-> ser.cell, cellstr |-> dumps(ser.cell)]
    /\ UNCHANGED <<engine_vars, tril_vars, cell_vars, env, jk>>

\* cell2 = loads(cellstr)
Loads ==
    /\ ser.pc = "dumped"
    /\ ser' = [pc |-> "loaded", cell |-> ser.cell, cellstr |-> ser.cellstr,
               cell2 |-> loads(ser.cellstr)]
    /\ UNCHANGED <<engine_vars, tril_vars, cell_vars, env, jk>>

NextSer ==
    \/ Dumps
    \/ Loads

SpecSer == InitSer /\ [][NextSer]_vars

\* C27: the cell returned by loads(dumps(cell)) has the atom, basis, pseudo
\* and ecp attributes of the original cell.
C27_RoundTrip ==
    ser.pc = "loaded"
    => /\ ser.cell2.atom = ser.cell.atom
       /\ ser.cell2.basis = ser.cell.basis
       /\ ser.cell2.pseudo = ser.cell.pseudo
       /\ ser.cell2.ecp = ser.cell.ecp

\* ============================================================ pbc/df/mdf_jk.py
\* One call of get_jk, get_j_kpts or get_k_kpts on an MDF object; jk holds
\* the arguments, the state of the object (cderi_none: mydf._cderi is None,
\* has: mydf.has_kpts of the band k-points), the events of the call in order
\* and the values bound to vj and vk (None or the list of the contributions
\* added up).
JkFunctions == {"get_jk", "get_j_kpts", "get_k_kpts"}

\* kpt_band / kpts_band: None, the k-point itself, or another k-point.
JkBands == {"None", "same", "other"}

\* The build of every call, needed or not.
needs_build_always(cderi_none, has) == TRUE

\* mydf._cderi is None or not mydf.has_kpts(kpts_band)
needs_build(cderi_none, has) == cderi_none \/ ~has

\* mydf.build(kpts_band=kpts_band): afterwards the tensors exist and cover
\* the band k-points.
mdf_build(r) ==
    [r EXCEPT !.ev = Append(@, "build"), !.cderi_none = FALSE, !.has = TRUE]

\* The guard that opens get_j_kpts, get_k_kpts and the second part of get_jk.
build_if_needed(r) == IF needs_build(r.cderi_none, r.has) THEN mdf_build(r) ELSE r

\* get_k_kpts: the guard, then the two contributions added up.
get_k_kpts(r) ==
    LET b == build_if_needed(r)
    IN  [b EXCEPT !.ev = @ \o <<"aft_k", "df_k">>, !.vk = <<"aft_k", "df_k">>]

\* get_j_kpts: the guard, then the two contributions added up.
get_j_kpts(r) ==
    LET b == build_if_needed(r)
    IN  [b EXCEPT !.ev = @ \o <<"aft_j", "df_j">>, !.vj = <<"aft_j", "df_j">>]

\* kpt_band is not None and abs(kpt-kpt_band).sum() > 1e-9
band_differs(band) == band = "other"

InitJk ==
    /\ EngineOff
    /\ TrilOff
    /\ CellOff
    /\ SerOff /\ EnvOff
    /\ \E f \in JkFunctions, band \in JkBands, c, h, wj, wk \in BOOLEAN :
          /\ f = "get_j_kpts" => (wj /\ ~wk)
          /\ f = "get_k_kpts" => (wk /\ ~wj)
          /\ jk = [pc |-> "call", fn |-> f, band |-> band, with_j |-> wj, with_k |-> wk,
                   cderi_none |-> c, has |-> h, cderi_none0 |-> c, has0 |-> h,
                   ev |-> <<>>, vj |-> "None", vk |-> "None"]

\* A direct call of get_j_kpts.
GetJKpts ==
    /\ jk.pc = "call" /\ jk.fn = "get_j_kpts"
    /\ jk' = [get_j_kpts(jk) EXCEPT !.pc = "done"]
    /\ UNCHANGED <<engine_vars, tril_vars, cell_vars, ser, env>>

\* A direct call of get_k_kpts.
GetKKpts ==
    /\ jk.pc = "call" /\ jk.fn = "get_k_kpts"
    /\ jk' = [get_k_kpts(jk) EXCEPT !.pc = "done"]
    /\ UNCHANGED <<engine_vars, tril_vars, cell_vars, ser, env>>

\* get_jk with a band k-point that differs: vj = vk = None, then
\* if with_k: vk = get_k_kpts(...)
GetJkBandK ==
    /\ jk.pc = "call" /\ jk.fn = "get_jk" /\ band_differs(jk.band)
    /\ jk' = [(IF jk.with_k THEN get_k_kpts(jk) ELSE jk) EXCEPT !.pc = "band_j"]
    /\ UNCHANGED <<engine_vars, tril_vars, cell_vars, ser, env>>

\* if with_j: vj = get_j_kpts(...); return vj, vk
GetJkBandJ ==
    /\ jk.pc = "band_j"
    /\ jk' = [(IF jk.with_j THEN get_j_kpts(jk) ELSE jk) EXCEPT !.pc = "done"]
    /\ UNCHANGED <<engine_vars, tril_vars, cell_vars, ser, env>>

\* get_jk at the k-point itself: the guard, df_jk.get_jk and aft_jk.get_jk
\* (each returns None for a part that is not asked for), then the sums.
GetJkPoint ==
    /\ jk.pc = "call" /\ jk.fn = "get_jk" /\ ~band_differs(jk.band)
    /\ LET b == build_if_needed(jk)
       IN  jk' = [b EXCEPT !.ev = @ \o <<"df_jk", "aft_jk">>,
                           !.vj = IF jk.with_j THEN <<"aft_j", "df_j">> ELSE "None",
                           !.vk = IF jk.with_k THEN <<"aft_k", "df_k">> ELSE "None",
                           !.pc = "done"]
    /\ UNCHANGED <<engine_vars, tril_vars, cell_vars, ser, env>>

NextJk ==
    \/ GetJKpts
    \/ GetKKpts
    \/ GetJkBandK
    \/ GetJkBandJ
    \/ GetJkPoint

SpecJk == InitJk /\ [][NextJk]_vars

\* Positions of the build events and of the J/K contributions of the call.
BuildPos == {k \in 1 .. Len(jk.ev) : jk.ev[k] = "build"}

ContribPos == {k \in 1 .. Len(jk.ev) : jk.ev[k] # "build"}

\* C29: in each of the three functions, when mydf._cderi is None or the band
\* k-points are not covered at the call, every J/K contribution of the call
\* is computed after mydf.build has been invoked, and otherwise build is not
\* invoked; a call invokes build at most once (build makes both conditions
\* hold), also when get_jk calls get_k_kpts and then get_j_kpts for a band
\* k-point that differs; and in that branch the returned vj is None exactly
\* when with_j is false and vk is None exactly when with_k is false.
C29_BuildBeforeJK ==
    jk.pc # "off"
    => /\ Cardinality(BuildPos) <= 1
       /\ needs_build(jk.cderi_none0, jk.has0)
          => \A k \in ContribPos : \E b \in BuildPos : b < k
       /\ ~needs_build(jk.cderi_none0, jk.has0) => BuildPos = {}
       /\ (jk.pc = "done" /\ ContribPos # {})
          => (BuildPos # {} <=> needs_build(jk.cderi_none0, jk.has0))
       /\ (jk.pc = "done" /\ jk.fn = "get_jk" /\ band_differs(jk.band))
          => /\ jk.vj = "None" <=> ~jk.with_j
             /\ jk.vk = "None" <=> ~jk.with_k

C29_Witness ==
    /\ jk.pc = "done" /\ jk.fn = "get_jk" /\ band_differs(jk.band)
    /\ jk.with_j /\ jk.with_k
    /\ ~jk.cderi_none0 /\ ~jk.has0
    /\ jk.ev = <<"build", "aft_k", "df_k", "aft_j", "df_j">>
    /\ jk.vj # "None" /\ jk.vk # "None"

\* ------------------------------------------------ Cell.make_ecp_env
\* One call of Cell.make_ecp_env; env holds the atoms of the cell (their
\* symbols, in order), the ECP table passed in (ecp0) and the one still in
\* force (ecp), the pseudopotential table self._pseudo, column 0 of _atm,
\* the rows of _ecpbas (atom index and definition) and the atoms named in
\* the warning.
\* An ECP definition: the number of core electrons and the name of its terms.
EcpDefs == {<<0, "ecp_a">>, <<1, "ecp_b">>}

\* A pseudopotential definition: the valence electrons per shell first.
PpDefs == {<<<<2, 1>>, "pp_a">>, <<<<2, 2>>, "pp_b">>}

\* Nuclear charges of the atom symbols.
charge(symb) ==
    CASE symb = "H" -> 1 [] symb = "O" -> 8 [] symb = "C" -> 6
      [] symb = "N" -> 7 [] symb = "F" -> 9

\* Python sum over a tuple.
py_sum(t) == SumF(t, Len(t))

EcpTables == UNION {[ks -> EcpDefs] : ks \in SUBSET Atoms}

PpTables == UNION {[ks -> PpDefs] : ks \in SUBSET Atoms}

\* cell._atom: one or two atoms, repeated symbols included.
AtomLists == UNION {[1 .. n -> Atoms] : n \in 1 .. 2}

\* The table with every entry kept, conflicts included.
drop_conflicts_none(_ecp, _pseudo) == _ecp

\* dict((k,_ecp[k]) for k in _ecp if k not in self._pseudo)
drop_conflicts(_ecp, _pseudo) ==
    [k \in DOMAIN _ecp \ DOMAIN _pseudo |-> _ecp[k]]

\* A dict is true when it is not empty.
truthy(d) == DOMAIN d # {}

\* mole.make_ecp_env: the atoms whose symbol is in the table get the charge
\* left by the core electrons and their rows in _ecpbas.
mole_make_ecp_env(atoms, _atm, _ecp) ==
    LET hit == {ia \in DOMAIN atoms : atoms[ia] \in DOMAIN _ecp}
        rows[n \in 0 .. Len(atoms)] ==
            IF n = 0 THEN <<>>
            ELSE IF n \in hit THEN Append(rows[n - 1], <<n, _ecp[atoms[n]]>>)
                 ELSE rows[n - 1]
    IN  <<[ia \in DOMAIN atoms |->
              IF ia \in hit THEN charge(atoms[ia]) - _ecp[atoms[ia]][1] ELSE _atm[ia]],
          rows[Len(atoms)]>>

\* make_pseudo_env: _atm[ia,0] = sum(_pseudo[symb][0]) for the atoms in _pseudo.
make_pseudo_env(atoms, _atm, _pseudo) ==
    [ia \in DOMAIN atoms |->
        IF atoms[ia] \in DOMAIN _pseudo THEN py_sum(_pseudo[atoms[ia]][1]) ELSE _atm[ia]]

InitEnv ==
    /\ EngineOff
    /\ TrilOff
    /\ CellOff
    /\ SerOff /\ JkOff
    /\ \E atoms \in AtomLists, e \in EcpTables, p \in PpTables :
          env = [pc |-> "call", atom |-> atoms, ecp0 |-> e, ecp |-> e, pseudo |-> p,
                 atm |-> [ia \in DOMAIN atoms |-> charge(atoms[ia])],
                 ecpbas |-> <<>>, warned |-> {}]

\* Lines 885-891: the conflicts, the warning and the table without them.
EnvConflicts ==
    /\ env.pc = "call"
    /\ LET conflicts == IF truthy(env.ecp) /\ truthy(env.pseudo)
                        THEN DOMAIN env.pseudo \cap DOMAIN env.ecp ELSE {}
       IN  env' = [env EXCEPT !.pc = "ecp",
                              !.warned = conflicts,
                              !.ecp = IF conflicts # {}
                                      THEN drop_conflicts(env.ecp, env.pseudo) ELSE @]
    /\ UNCHANGED <<engine_vars, tril_vars, cell_vars, ser, jk>>

\* Lines 892-894: _ecpbas starts empty; if _ecp: mole.make_ecp_env.
EnvEcp ==
    /\ env.pc = "ecp"
    /\ LET r == mole_make_ecp_env(env.atom, env.atm, env.ecp)
       IN  env' = IF truthy(env.ecp)
                  THEN [env EXCEPT !.pc = "pseudo", !.atm = r[1], !.ecpbas = r[2]]
                  ELSE [env EXCEPT !.pc = "pseudo"]
    /\ UNCHANGED <<engine_vars, tril_vars, cell_vars, ser, jk>>

\* Lines 895-897: if self._pseudo: make_pseudo_env; return.
EnvPseudo ==
    /\ env.pc = "pseudo"
    /\ env' = IF truthy(env.pseudo)
              THEN [env EXCEPT !.pc = "done",
                               !.atm = make_pseudo_env(env.atom, env.atm, env.pseudo)]
              ELSE [env EXCEPT !.pc = "done"]
    /\ UNCHANGED <<engine_vars, tril_vars, cell_vars, ser, jk>>

NextEnv ==
    \/ EnvConflicts
    \/ EnvEcp
    \/ EnvPseudo

SpecEnv == InitEnv /\ [][NextEnv]_vars

\* The definitions of the rows of _ecpbas that belong to atom ia.
EcpRowsOf(ia) == {env.ecpbas[k][2] : k \in {j \in DOMAIN env.ecpbas : env.ecpbas[j][1] = ia}}

\* C30: Cell.make_ecp_env resolves conflicts in favour of .pseudo: when the
\* ECP environment is built the ECP table has lost exactly the atoms that are
\* also in self._pseudo, and on return an atom in both tables has no row in
\* _ecpbas and the charge of its pseudopotential, an atom only in the ECP
\* table has the rows and the charge of its ECP definition, an atom only in
\* self._pseudo has the charge of its pseudopotential, and an atom in neither
\* keeps its nuclear charge.
C30_PseudoWins ==
    /\ env.pc \in {"ecp", "pseudo", "done"}
       => env.ecp = [k \in DOMAIN env.ecp0 \ DOMAIN env.pseudo |-> env.ecp0[k]]
    /\ env.pc \in {"pseudo", "done"}
       => \A ia \in DOMAIN env.atom :
             EcpRowsOf(ia) = IF env.atom[ia] \in DOMAIN env.ecp0 \ DOMAIN env.pseudo
                             THEN {env.ecp0[env.atom[ia]]} ELSE {}
    /\ env.pc = "done"
       => \A ia \in DOMAIN env.atom :
             LET symb == env.atom[ia]
             IN  env.atm[ia] =
                    IF symb \in DOMAIN env.pseudo THEN py_sum(env.pseudo[symb][1])
                    ELSE IF symb \in DOMAIN env.ecp0 THEN charge(symb) - env.ecp0[symb][1]
                    ELSE charge(symb)

C30_Witness ==
    /\ env.pc = "done"
    /\ Len(env.atom) = 2 /\ env.atom[1] # env.atom[2]
    /\ DOMAIN env.ecp0 = {env.atom[1], env.atom[2]}
    /\ DOMAIN env.pseudo = {env.atom[1]}
    /\ env.warned = {env.atom[1]}
    /\ Len(env.ecpbas) = 1 /\ env.ecpbas[1][1] = 2
    /\ env.atm[1] = py_sum(env.pseudo[env.atom[1]][1])
    /\ env.atm[2] = charge(env.atom[2]) - env.ecp0[env.atom[2]][1]

====
